---- MODULE Spec2Model ----
(***************************************************************************)
(* Model of the firebird-api catalogue service: the /clavesalternas search *)
(* and filter handlers of src/index.js and of the earlier revisions of the *)
(* same file kept in the repository, the stock pivot processExistencias    *)
(* and the merge with the secondary store (db3); and the handlers of       *)
(* /existencias-masiva-filtrada, /familias, /productos and /productos/:id. *)
(* Spec is one request at a time through the handlers; LiveSpec adds that  *)
(* every query settles; PoolSpec is the wrapper query() of db.js and       *)
(* db3.js with handlers that run at the same time on the two pools.        *)
(*                                                                         *)
(* JavaScript strings are sequences of one-character strings; JavaScript   *)
(* values are tagged records (undef, null, nan, num, str).  Dimensional    *)
(* numbers are fixed point, in units of 10^-6 (Scale).                     *)
(***************************************************************************)
EXTENDS Integers, Sequences, FiniteSets, TLC

VARIABLES rev, store, pc, req, loc, pending, res, issued, pool, calls

vars == <<rev, store, pc, req, loc, pending, res, issued, pool, calls>>

(***************************************************************************)
(* Bounds of the model                                                     *)
(***************************************************************************)
\* at most this many attribute filters are set in one request
MaxFilters == 1

\* the handlers that run at the same time in the model of the pools: one
\* more than a pool has connections
MaxClients == 6

(***************************************************************************)
(* JavaScript values                                                       *)
(***************************************************************************)
UNDEF == [t |-> "undef"]
NULL == [t |-> "null"]
NaN == [t |-> "nan"]
Num(n) == [t |-> "num", v |-> n]
Str(s) == [t |-> "str", v |-> s]
\* an array, as the JSON body parser delivers it
Arr(s) == [t |-> "arr", v |-> s]

IsNum(x) == x.t = "num"
IsStr(x) == x.t = "str"

\* ToBoolean: undefined, null, NaN, 0 and '' are falsy
Truthy(x) ==
  CASE x.t = "undef" -> FALSE
    [] x.t = "null" -> FALSE
    [] x.t = "nan" -> FALSE
    [] x.t = "num" -> x.v # 0
    [] x.t = "str" -> x.v # <<>>

\* a || b
JsOr(a, b) == IF Truthy(a) THEN a ELSE b

(***************************************************************************)
(* Strings                                                                 *)
(***************************************************************************)
Digits == <<"0", "1", "2", "3", "4", "5", "6", "7", "8", "9">>
IsDigit(c) == \E i \in 1..10 : Digits[i] = c
DigitVal(c) == (CHOOSE i \in 1..10 : Digits[i] = c) - 1
IsSpace(c) == c = " "

UpperChar(c) ==
  LET lower == <<"a", "b", "c", "d", "e", "f", "g", "h", "i", "j", "k", "l", "m",
                 "n", "o", "p", "q", "r", "s", "t", "u", "v", "w", "x", "y", "z">>
      upper == <<"A", "B", "C", "D", "E", "F", "G", "H", "I", "J", "K", "L", "M",
                 "N", "O", "P", "Q", "R", "S", "T", "U", "V", "W", "X", "Y", "Z">>
  IN IF \E i \in 1..26 : lower[i] = c
     THEN upper[CHOOSE i \in 1..26 : lower[i] = c]
     ELSE c

\* String.prototype.toUpperCase / SQL UPPER
ToUpper(s) == [i \in 1..Len(s) |-> UpperChar(s[i])]

RECURSIVE LTrim(_)
LTrim(s) == IF s # <<>> /\ IsSpace(Head(s)) THEN LTrim(Tail(s)) ELSE s

RECURSIVE RTrim(_)
RTrim(s) ==
  IF s # <<>> /\ IsSpace(s[Len(s)]) THEN RTrim(SubSeq(s, 1, Len(s) - 1)) ELSE s

\* String.prototype.trim / SQL TRIM
Trim(s) == RTrim(LTrim(s))

\* s.replace(a, b) with a string pattern: the first occurrence only
RECURSIVE ReplaceFirst(_, _, _)
ReplaceFirst(s, a, b) ==
  IF s = <<>> THEN <<>>
  ELSE IF Head(s) = a THEN <<b>> \o Tail(s)
  ELSE <<Head(s)>> \o ReplaceFirst(Tail(s), a, b)

\* s.replace(/a/g, b) and SQL REPLACE: every occurrence
ReplaceAll(s, a, b) == [i \in 1..Len(s) |-> IF s[i] = a THEN b ELSE s[i]]

\* x LIKE '%t%' for a term t without wildcard characters
Contains(s, t) ==
  \E i \in 0..(Len(s) - Len(t)) : SubSeq(s, i + 1, i + Len(t)) = t

\* SQL comparison of character values: trailing blanks are not significant
SqlStrEq(a, b) == RTrim(a) = RTrim(b)

\* a sorts before b under ORDER BY: character by character in code order,
\* a proper prefix first
RECURSIVE StrLess(_, _)
StrLess(a, b) ==
  LET order == <<" ", ".", "0", "1", "2", "3", "4", "5", "6", "7", "8", "9",
                 "A", "B", "C", "D", "E", "F", "G", "H", "I", "J", "K", "L", "M",
                 "N", "O", "P", "Q", "R", "S", "T", "U", "V", "W", "X", "Y", "Z",
                 "a", "b", "c", "d", "e", "f", "g", "h", "i", "j", "k", "l", "m",
                 "n", "o", "p", "q", "r", "s", "t", "u", "v", "w", "x", "y", "z">>
      rank(c) == CHOOSE i \in 1..Len(order) : order[i] = c
  IN IF b = <<>> THEN FALSE
     ELSE IF a = <<>> THEN TRUE
     ELSE IF Head(a) = Head(b) THEN StrLess(Tail(a), Tail(b))
     ELSE rank(Head(a)) < rank(Head(b))

(***************************************************************************)
(* Numbers                                                                 *)
(***************************************************************************)
\* fixed point unit of the dimensional values: 10^-6
Scale == 1000000

Abs(n) == IF n < 0 THEN -n ELSE n

RECURSIVE Pow10(_)
Pow10(n) == IF n = 0 THEN 1 ELSE 10 * Pow10(n - 1)

\* the longest prefix of s made of digits
RECURSIVE DigitPrefix(_)
DigitPrefix(s) ==
  IF s # <<>> /\ IsDigit(Head(s)) THEN <<Head(s)>> \o DigitPrefix(Tail(s)) ELSE <<>>

RECURSIVE DigitsValue(_)
DigitsValue(s) ==
  IF s = <<>> THEN 0 ELSE DigitsValue(SubSeq(s, 1, Len(s) - 1)) * 10 + DigitVal(s[Len(s)])

\* sign and remainder of a numeric literal
SignOf(s) == IF s # <<>> /\ Head(s) = "-" THEN -1 ELSE 1
Unsigned(s) == IF s # <<>> /\ (Head(s) = "-" \/ Head(s) = "+") THEN Tail(s) ELSE s

\* parseInt(x): leading blanks skipped, optional sign, decimal digits up to the
\* first other character; NaN when there is no digit (and for undefined)
parseInt(x) ==
  IF ~IsStr(x) THEN NaN
  ELSE LET s == LTrim(x.v)
           d == DigitPrefix(Unsigned(s))
       IN IF d = <<>> THEN NaN ELSE Num(SignOf(s) * DigitsValue(d))

\* the first six decimals of a fraction, as an integer
FracValue(f) ==
  LET k == IF Len(f) < 6 THEN Len(f) ELSE 6
  IN DigitsValue(SubSeq(f, 1, k)) * Pow10(6 - k)

\* parseFloat(s) of a string: leading blanks skipped, optional sign, digits,
\* optional '.' and digits; NaN when there is no digit.  The result is in
\* units of 1/Scale.
parseFloat(s) ==
  LET u == LTrim(s)
      body == Unsigned(u)
      ip == DigitPrefix(body)
      rest == SubSeq(body, Len(ip) + 1, Len(body))
      fp == IF rest # <<>> /\ Head(rest) = "." THEN DigitPrefix(Tail(rest)) ELSE <<>>
  IN IF ip = <<>> /\ fp = <<>> THEN NaN
     ELSE Num(SignOf(u) * (DigitsValue(ip) * Scale + FracValue(fp)))

\* Math.floor(a / b) and Math.ceil(a / b) for integers a and b, b # 0
MathFloorDiv(a, b) == IF b > 0 THEN a \div b ELSE (-a) \div (-b)
MathCeilDiv(a, b) == -MathFloorDiv(-a, b)

\* CAST(x AS NUMERIC(15, dec)) of a value in units of 1/Scale: rounded to dec
\* decimals, halves away from zero
RoundTo(n, dec) ==
  LET unit == Pow10(6 - dec)
      q == (Abs(n) + unit \div 2) \div unit
  IN (IF n < 0 THEN -1 ELSE 1) * q * unit

\* decimal text of a non-negative integer
RECURSIVE IntToStr(_)
IntToStr(n) ==
  IF n < 10 THEN <<Digits[n + 1]>> ELSE IntToStr(n \div 10) \o <<Digits[(n % 10) + 1]>>

(***************************************************************************)
(* The two stores.  A table is a sequence of rows; INVE02 is kept in the   *)
(* order of its key CVE_ART, which is the order ORDER BY T1.CVE_ART gives. *)
(***************************************************************************)
\* the row a LEFT JOIN supplies when no row matches
NULLROW == [null |-> TRUE]

KeyA == <<"A", "1", " ">>
KeyB == <<"B", "2">>
KeyC == <<"C", "3">>

\* the primary store (db.js); diamA is the stored inner diameter of product A.
\* MINVE02 holds purchase movements (CVE_CPTO = 1) and one of another concept.
\* MULT02 is not stored in the order of its key.  The attribute rows of K1..K7
\* belong to products outside the catalogue and carry the families /familias
\* reads: written in lower case with blanks, equal to another row's, longer
\* than an excluded name, NULL, empty and blank.
PrimaryOf(diamA) ==
  LET fam(k, f) ==
        [CVE_PROD |-> Str(<<"K", k>>), CAMPLIB1 |-> NULL, CAMPLIB2 |-> NULL,
         CAMPLIB3 |-> NULL, CAMPLIB7 |-> NULL, CAMPLIB13 |-> NULL,
         CAMPLIB17 |-> NULL, CAMPLIB19 |-> NULL, CAMPLIB22 |-> f, CAMPLIB28 |-> NULL]
  IN
  [INVE02 |-> <<
  [CVE_ART |-> Str(KeyA), DESCR |-> Str(<<"R", "E", "T">>), LIN_PROD |-> Str(<<"L", "1">>), ULT_COSTO |-> Num(10)],
  [CVE_ART |-> Str(KeyB), DESCR |-> Str(<<"O", "R", "I">>), LIN_PROD |-> Str(<<"L", "2">>), ULT_COSTO |-> Num(20)],
  [CVE_ART |-> Str(KeyC), DESCR |-> Str(<<"R", "E", "T">>), LIN_PROD |-> NULL, ULT_COSTO |-> NULL] >>,
   CVES_ALTER02 |-> <<
  [CVE_ART |-> Str(KeyA), CVE_CLPV |-> Str(<<"3">>), CVE_ALTER |-> Str(<<"X", "1">>), TIPO |-> Str(<<"P">>)],
  [CVE_ART |-> Str(KeyA), CVE_CLPV |-> Str(<<"3", "5">>), CVE_ALTER |-> Str(<<"Y", "1">>), TIPO |-> Str(<<"P">>)],
  [CVE_ART |-> Str(KeyB), CVE_CLPV |-> Str(<<"3">>), CVE_ALTER |-> Str(<<"X", "2">>), TIPO |-> Str(<<"P">>)],
  [CVE_ART |-> Str(KeyC), CVE_CLPV |-> Str(<<"9">>), CVE_ALTER |-> Str(<<"Z", "3">>), TIPO |-> Str(<<"C">>)] >>,
   PROV02 |-> <<
  [CLAVE |-> Str(<<"3">>), NOMBRE |-> Str(<<"A", "C", "M", "E">>)],
  [CLAVE |-> Str(<<"3", "5">>), NOMBRE |-> Str(<<"S", "K", "F">>)] >>,
   INVE_CLIB02 |-> <<
  [CVE_PROD |-> Str(KeyA), CAMPLIB1 |-> diamA, CAMPLIB2 |-> Str(<<"2", ",", "5">>),
   CAMPLIB3 |-> Str(<<" ">>), CAMPLIB7 |-> NULL, CAMPLIB13 |-> Str(<<"O", "R">>),
   CAMPLIB17 |-> Str(<<"M", "M">>), CAMPLIB19 |-> Str(<<"S", "E", "L">>),
   CAMPLIB22 |-> Str(<<"R", "E", "T", "E", "N">>), CAMPLIB28 |-> Str(<<"E", "J", "E">>)],
  [CVE_PROD |-> Str(KeyC), CAMPLIB1 |-> NULL, CAMPLIB2 |-> NULL,
   CAMPLIB3 |-> NULL, CAMPLIB7 |-> NULL, CAMPLIB13 |-> NULL,
   CAMPLIB17 |-> NULL, CAMPLIB19 |-> NULL,
   CAMPLIB22 |-> Str(<<"V", "A", "R">>), CAMPLIB28 |-> NULL],
  fam("1", Str(<<" ", "k", "i", "t", " ">>)),
  fam("2", Str(<<"T", "U", "B", "O">>)),
  fam("3", Str(<<"R", "E", "T", "E", "N">>)),
  fam("4", Str(<<"K", "I", "T", "S">>)),
  fam("5", NULL),
  fam("6", Str(<<>>)),
  fam("7", Str(<<" ", " ">>)) >>,
   PRECIO_X_PROD02 |-> <<
  [CVE_ART |-> Str(KeyA), CVE_PRECIO |-> Str(<<"1">>), PRECIO |-> Num(100)],
  [CVE_ART |-> Str(KeyA), CVE_PRECIO |-> Str(<<"3", " ">>), PRECIO |-> Num(120)],
  [CVE_ART |-> Str(KeyA), CVE_PRECIO |-> Str(<<"4">>), PRECIO |-> Num(110)],
  [CVE_ART |-> Str(KeyC), CVE_PRECIO |-> Str(<<"1">>), PRECIO |-> Num(50)] >>,
   MULT02 |-> <<
  [CVE_ART |-> Str(KeyC), CVE_ALM |-> 6, EXIST |-> Num(3)],
  [CVE_ART |-> Str(KeyA), CVE_ALM |-> 6, EXIST |-> Num(-2)],
  [CVE_ART |-> Str(KeyA), CVE_ALM |-> 3, EXIST |-> Num(0)],
  [CVE_ART |-> Str(KeyA), CVE_ALM |-> 1, EXIST |-> Num(5)],
  [CVE_ART |-> Str(KeyC), CVE_ALM |-> 5, EXIST |-> Num(4)] >>,
   MINVE02 |-> <<
  [CVE_ART |-> Str(KeyA), CLAVE_CLPV |-> Str(<<"3", " ">>), COSTO |-> Num(11), NUM_MOV |-> 1, CVE_CPTO |-> 1],
  [CVE_ART |-> Str(KeyA), CLAVE_CLPV |-> Str(<<"3", "5">>), COSTO |-> Num(12), NUM_MOV |-> 4, CVE_CPTO |-> 1],
  [CVE_ART |-> Str(KeyA), CLAVE_CLPV |-> Str(<<"9">>), COSTO |-> Num(13), NUM_MOV |-> 7, CVE_CPTO |-> 2],
  [CVE_ART |-> Str(KeyC), CLAVE_CLPV |-> NULL, COSTO |-> NULL, NUM_MOV |-> 3, CVE_CPTO |-> 1] >>,
   PRODUCTOS |-> <<
  [ID |-> Str(<<"1">>), NOMBRE |-> Str(<<"R", "E", "T">>)],
  [ID |-> Str(<<"2">>), NOMBRE |-> Str(<<"O", "R", "I">>)] >>]

\* the secondary store (db3.js)
Secondary ==
  [MULT03 |-> <<
  [CVE_ART |-> Str(<<"A", "1">>), CVE_ALM |-> 3, EXIST |-> Num(9)],
  [CVE_ART |-> Str(<<"A", "1">>), CVE_ALM |-> 1, EXIST |-> Num(77)],
  [CVE_ART |-> Str(KeyC), CVE_ALM |-> 3, EXIST |-> NULL] >>,
   PRECIO_X_PROD03 |-> <<
  [CVE_ART |-> Str(KeyA), CVE_PRECIO |-> Str(<<"4">>), PRECIO |-> Num(90)] >>]

\* the store contents a run starts from: populated, and with every table empty
Stores ==
  { [db |-> PrimaryOf(d), db3 |-> Secondary] :
      \* the stored inner diameter of product A: five decimals, six decimals
      d \in { Str(<<"1", ",", "0", "0", "0", "0", "2">>),
              Str(<<"1", ",", "0", "0", "0", "0", "2", "4">>) } }
    \cup { [db |-> [t \in DOMAIN PrimaryOf(NULL) |-> <<>>],
             db3 |-> [t \in DOMAIN Secondary |-> <<>>]] }

(***************************************************************************)
(* SQL text and its evaluation.  A statement is a record of the parts of   *)
(* the SQL text the handlers assemble; a WHERE clause is the sequence of   *)
(* the predicates joined by AND, each consuming its placeholders in order. *)
(***************************************************************************)
\* item[key]: undefined when the property is missing
Get(r, k) == IF k \in DOMAIN r THEN r[k] ELSE UNDEF

\* a column of a joined row; NULL when the outer join supplied no row
Col(j, tbl, col) == IF j[tbl] = NULLROW THEN NULL ELSE j[tbl][col]

\* text of a bound parameter compared with a character column
ParamText(p) == IF IsStr(p) THEN p.v ELSE IF IsNum(p) /\ p.v >= 0 THEN IntToStr(p.v) ELSE <<"?">>

\* x LIKE pattern, for the patterns the handlers bind: %term%
LikeMatch(text, pat) ==
  IF Len(pat) >= 2 /\ pat[1] = "%" /\ pat[Len(pat)] = "%"
  THEN Contains(text, SubSeq(pat, 2, Len(pat) - 1))
  ELSE SqlStrEq(text, pat)

\* one comparison of a character column with a placeholder
AtomHolds(a, p, j) ==
  LET raw == Col(j, a.tbl, a.col)
      v0 == IF raw = NULL /\ a.coalesce THEN Str(<<>>) ELSE raw
  IN /\ IsStr(v0)
     /\ IsStr(p)
     /\ LET v1 == IF a.trim THEN Trim(v0.v) ELSE v0.v
            v2 == IF a.upper THEN ToUpper(v1) ELSE v1
        IN CASE a.op = "like" -> LikeMatch(v2, p.v)
             [] a.op = "eq" -> SqlStrEq(v2, p.v)
             [] a.op = "eqUpperTrim" -> SqlStrEq(v2, ToUpper(Trim(p.v)))

\* CAST(REPLACE(COALESCE(NULLIF(TRIM(col), ''), '0'), ',', '.') AS NUMERIC(15, dec))
DbNum(v, dec) ==
  LET t == IF IsStr(v) THEN Trim(v.v) ELSE <<>>
      text == IF t = <<>> THEN <<"0">> ELSE t
  IN RoundTo(parseFloat(ReplaceAll(text, ",", ".")).v, dec)

\* a predicate on a dimensional column; ps are its bound parameters
NumHolds(c, ps, j) ==
  LET d == DbNum(Col(j, "T4", c.col), c.dec)
      p(i) == RoundTo(ps[i].v, c.dec)
  IN CASE c.op = "abs" -> Abs(d - p(1)) <= c.tol
       [] c.op = "eq" -> d = p(1)
       [] c.op = "ge" -> d >= p(1)
       [] c.op = "le" -> d <= p(1)
       [] c.op = "between" -> d >= p(1) /\ d <= p(2)

\* the number of ? a predicate carries
Placeholders(c) ==
  CASE c.k = "tipoP" -> 0
    [] c.k = "true" -> 0
    [] c.k = "anyOf" -> Len(c.atoms)
    [] c.k = "num" -> IF c.op = "between" THEN 2 ELSE 1

RECURSIVE CountPlaceholders(_)
CountPlaceholders(cs) ==
  IF cs = <<>> THEN 0 ELSE Placeholders(Head(cs)) + CountPlaceholders(Tail(cs))

ClauseHolds(c, ps, j) ==
  CASE c.k = "tipoP" ->
         LET v == Col(j, "T2", "TIPO") IN IsStr(v) /\ SqlStrEq(v.v, <<"P">>)
    [] c.k = "true" -> TRUE
    [] c.k = "anyOf" -> \E i \in 1..Len(c.atoms) : AtomHolds(c.atoms[i], ps[i], j)
    [] c.k = "num" -> NumHolds(c, ps, j)

\* WHERE c1 AND c2 AND ... with the parameters ps in placeholder order
RECURSIVE WhereHolds(_, _, _)
WhereHolds(cs, ps, j) ==
  IF cs = <<>> THEN TRUE
  ELSE LET n == Placeholders(Head(cs))
       IN /\ ClauseHolds(Head(cs), SubSeq(ps, 1, n), j)
          /\ WhereHolds(Tail(cs), SubSeq(ps, n + 1, Len(ps)), j)


SeqToSet(sq) == {sq[i] : i \in 1..Len(sq)}

RECURSIVE Flatten(_)
Flatten(ss) == IF ss = <<>> THEN <<>> ELSE Head(ss) \o Flatten(Tail(ss))

\* the T4 side of an inner JOIN INVE_CLIB02 T4 ON T1.CVE_ART = T4.CVE_PROD
T4RowsInner(db, p) ==
  SelectSeq(db.INVE_CLIB02, LAMBDA r : SqlStrEq(r.CVE_PROD.v, p.CVE_ART.v))

\* the T4 side of LEFT JOIN INVE_CLIB02 T4 ON T1.CVE_ART = T4.CVE_PROD
T4RowsOf(db, p) ==
  LET m == SelectSeq(db.INVE_CLIB02, LAMBDA r : SqlStrEq(r.CVE_PROD.v, p.CVE_ART.v))
  IN IF m = <<>> THEN <<NULLROW>> ELSE m

\* the T2 side of the join with CVES_ALTER02: inner, left or not joined
T2RowsOf(db, sql, p) ==
  LET m == {r \in SeqToSet(db.CVES_ALTER02) : SqlStrEq(r.CVE_ART.v, p.CVE_ART.v)}
  IN IF sql.t2join = "none" THEN {NULLROW}
     ELSE IF m = {} /\ sql.t2join = "left" THEN {NULLROW}
     ELSE m

\* LEFT JOIN PROV02 T3 ON T2.CVE_CLPV = T3.CLAVE
T3RowsOf(db, sql, t2) ==
  LET m == IF t2 = NULLROW \/ ~sql.t3join THEN {}
           ELSE {r \in SeqToSet(db.PROV02) : SqlStrEq(r.CLAVE.v, t2.CVE_CLPV.v)}
  IN IF m = {} THEN {NULLROW} ELSE m

\* the parameters of the WHERE clause: those after the price join's
WhereParams(sql, ps) == IF sql.price = "none" THEN ps ELSE Tail(ps)

\* some joined row of the group (T1, T4) satisfies the WHERE clause
Qualifies(db, sql, ps, p, t4) ==
  \E t2 \in T2RowsOf(db, sql, p) : \E t3 \in T3RowsOf(db, sql, t2) :
    WhereHolds(sql.where, WhereParams(sql, ps), [T1 |-> p, T2 |-> t2, T3 |-> t3, T4 |-> t4])

\* MAX of a set of numbers, NULL for the empty set
MaxOrNull(S) == IF S = {} THEN NULL ELSE Num(CHOOSE m \in S : \A n \in S : n <= m)

\* COALESCE(MAX(T5.PRECIO), 0.00) over the price rows joined on the list id
PriceOf(db, ps, p) ==
  LET S == {r.PRECIO.v : r \in {x \in SeqToSet(db.PRECIO_X_PROD02) :
                 /\ SqlStrEq(x.CVE_ART.v, p.CVE_ART.v)
                 /\ Trim(x.CVE_PRECIO.v) = ParamText(ps[1])
                 /\ IsNum(x.PRECIO)}}
  IN IF S = {} THEN Num(0) ELSE MaxOrNull(S)

\* MAX(CASE WHEN T6.CVE_ALM = alm THEN T6.EXIST ELSE NULL END), with or
\* without the outer COALESCE(..., 0)
StockColumn(db, sql, p, alm) ==
  LET S == {r.EXIST.v : r \in {x \in SeqToSet(db.MULT02) :
                 /\ SqlStrEq(x.CVE_ART.v, p.CVE_ART.v)
                 /\ x.CVE_ALM = alm
                 /\ IsNum(x.EXIST)}}
      m == MaxOrNull(S)
  IN IF m = NULL /\ sql.stockCoalesce THEN Num(0) ELSE m

\* the projected row of one group: the scalar columns, PRECIO when the price
\* list is joined, and one ALM_<id>_EXIST column per pivoted warehouse
OutRow(db, sql, ps, p, t4) ==
  LET j == [T1 |-> p, T4 |-> t4]
      scalars == [a \in DOMAIN sql.cols |-> Col(j, sql.cols[a][1], sql.cols[a][2])]
      price == IF sql.price = "none" THEN <<>> ELSE [PRECIO |-> PriceOf(db, ps, p)]
      stock == [a \in DOMAIN sql.stockCols |-> StockColumn(db, sql, p, sql.stockCols[a])]
  IN scalars @@ price @@ stock

\* SELECT ... GROUP BY <T1 and T4 columns> ORDER BY T1.CVE_ART, before paging
GroupedRows(db, sql, ps) ==
  Flatten([i \in 1..Len(db.INVE02) |->
    LET p == db.INVE02[i]
        t4s == T4RowsOf(db, p)
        hit == SelectSeq(t4s, LAMBDA t4 : Qualifies(db, sql, ps, p, t4))
    IN [n \in 1..Len(hit) |-> OutRow(db, sql, ps, p, hit[n])]])

\* the statement without FIRST: every row after the skipped ones
PagedNoFirst(sql, rows) ==
  IF sql.paged THEN SubSeq(rows, sql.skip + 1, Len(rows)) ELSE rows

\* FIRST n SKIP m of the rows the WHERE clause selects, when the statement pages
Paged(sql, rows) ==
  IF sql.paged
  THEN SubSeq(rows, sql.skip + 1,
              IF sql.skip + sql.first < Len(rows) THEN sql.skip + sql.first ELSE Len(rows))
  ELSE rows

\* SELECT COUNT(*) AS <alias>: the joined rows counted, not the products
RunCountAll(db, sql, ps) ==
  LET joined == UNION {{<<i, t2>> : t2 \in T2RowsOf(db, sql, db.INVE02[i])} :
                         i \in 1..Len(db.INVE02)}
      hits == {x \in joined :
                 \E t4 \in SeqToSet(T4RowsOf(db, db.INVE02[x[1]])) :
                   \E t3 \in T3RowsOf(db, sql, x[2]) :
                     WhereHolds(sql.where, ps,
                                [T1 |-> db.INVE02[x[1]], T2 |-> x[2], T3 |-> t3, T4 |-> t4])}
  IN << (sql.alias :> Num(Cardinality(hits))) >>

\* SELECT COUNT(DISTINCT T1.CVE_ART) AS <alias>: always exactly one row
RunCount(db, sql, ps) ==
  LET hits == {i \in 1..Len(db.INVE02) :
                 \E t4 \in SeqToSet(T4RowsOf(db, db.INVE02[i])) :
                    Qualifies(db, sql, ps, db.INVE02[i], t4)}
  IN << (sql.alias :> Num(Cardinality(hits))) >>

\* the ungrouped diagnostic query of /clavesalternas/search2: one row per
\* joined (T1, T2, T4, T5, T6) combination satisfying the WHERE clause
FlatRows(db, sql, ps) ==
  Flatten([i \in 1..Len(db.INVE02) |->
    LET p == db.INVE02[i]
        t2s == SelectSeq(db.CVES_ALTER02, LAMBDA r : SqlStrEq(r.CVE_ART.v, p.CVE_ART.v))
        t2x == IF t2s = <<>> THEN <<NULLROW>> ELSE t2s
        t4s == T4RowsOf(db, p)
        t5s == SelectSeq(db.PRECIO_X_PROD02, LAMBDA r :
                 SqlStrEq(r.CVE_ART.v, p.CVE_ART.v) /\ Trim(r.CVE_PRECIO.v) = ParamText(ps[1]))
        t5x == IF t5s = <<>> THEN <<NULLROW>> ELSE t5s
        t6s == SelectSeq(db.MULT02, LAMBDA r :
                 SqlStrEq(r.CVE_ART.v, p.CVE_ART.v) /\ r.CVE_ALM = 1)
        t6x == IF t6s = <<>> THEN <<NULLROW>> ELSE t6s
        Coalesce(v, d) == IF v = NULL THEN d ELSE v
    IN Flatten([a \in 1..Len(t2x) |-> Flatten([b \in 1..Len(t4s) |->
         Flatten([c \in 1..Len(t5x) |-> Flatten([d \in 1..Len(t6x) |->
           LET j == [T1 |-> p, T2 |-> t2x[a], T3 |-> NULLROW, T4 |-> t4s[b],
                     T5 |-> t5x[c], T6 |-> t6x[d]]
           IN IF WhereHolds(sql.where, Tail(ps), j)
              THEN << [CVE_ART |-> p.CVE_ART, DESCR |-> p.DESCR,
                       DB_PRECIO |-> Coalesce(Col(j, "T5", "PRECIO"), Num(-1)),
                       DB_EXIST_ALM1 |-> Coalesce(Col(j, "T6", "EXIST"), Num(-1)),
                       DB_CLAVE_ALT |-> Col(j, "T2", "CVE_ALTER"),
                       DB_TIPO_ALT |-> Col(j, "T2", "TIPO"),
                       DB_FAMILIA |-> Col(j, "T4", "CAMPLIB22")] >>
              ELSE <<>>])])])])])

\* SELECT TRIM(CVE_ART) AS ART, EXIST FROM MULT03
\* WHERE CVE_ALM = 3 AND CVE_ART IN (?, ..., ?)
RunStock3(db3, ps) ==
  LET hit == SelectSeq(db3.MULT03, LAMBDA r :
               r.CVE_ALM = 3 /\ \E i \in 1..Len(ps) : SqlStrEq(r.CVE_ART.v, ps[i].v))
  IN [n \in 1..Len(hit) |-> [ART |-> Str(Trim(hit[n].CVE_ART.v)), EXIST |-> hit[n].EXIST]]

\* SELECT TRIM(CVE_ART) AS ART, PRECIO FROM <table>
\* WHERE TRIM(CVE_PRECIO) = CAST(? AS VARCHAR(10)) AND CVE_ART IN (?, ..., ?)
RunPrecio(tbl, ps) ==
  LET hit == SelectSeq(tbl, LAMBDA r :
               /\ Trim(r.CVE_PRECIO.v) = ParamText(ps[1])
               /\ \E i \in 2..Len(ps) : SqlStrEq(r.CVE_ART.v, ps[i].v))
  IN [n \in 1..Len(hit) |-> [ART |-> Str(Trim(hit[n].CVE_ART.v)), PRECIO |-> hit[n].PRECIO]]

\* the rows of a sequence ordered by NUM_MOV descending
RECURSIVE SortByNumMovDesc(_)
SortByNumMovDesc(rows) ==
  IF rows = <<>> THEN <<>>
  ELSE LET i == CHOOSE k \in 1..Len(rows) : \A m \in 1..Len(rows) :
                  \/ rows[m].NUM_MOV < rows[k].NUM_MOV
                  \/ (rows[m].NUM_MOV = rows[k].NUM_MOV /\ k <= m)
       IN <<rows[i]>> \o SortByNumMovDesc(SubSeq(rows, 1, i - 1) \o SubSeq(rows, i + 1, Len(rows)))

\* the movement query without its ORDER BY: the rows in the order the table
\* stores them
RunCostoUnordered(db, ps) ==
  LET hit == SelectSeq(db.MINVE02, LAMBDA r :
               r.CVE_CPTO = 1 /\ \E i \in 1..Len(ps) : SqlStrEq(r.CVE_ART.v, ps[i].v))
  IN [n \in 1..Len(hit) |-> [CVE_ART |-> hit[n].CVE_ART, CLAVE_CLPV |-> hit[n].CLAVE_CLPV,
                              COSTO |-> hit[n].COSTO, NUM_MOV |-> Num(hit[n].NUM_MOV)]]

\* SELECT CVE_ART, CLAVE_CLPV, COSTO, NUM_MOV FROM MINVE02
\* WHERE CVE_CPTO = 1 AND CVE_ART IN (?, ..., ?) ORDER BY NUM_MOV DESC
RunCosto(db, ps) ==
  LET hit == SelectSeq(db.MINVE02, LAMBDA r :
               r.CVE_CPTO = 1 /\ \E i \in 1..Len(ps) : SqlStrEq(r.CVE_ART.v, ps[i].v))
      srt == SortByNumMovDesc(hit)
  IN [n \in 1..Len(srt) |-> [CVE_ART |-> srt[n].CVE_ART, CLAVE_CLPV |-> srt[n].CLAVE_CLPV,
                              COSTO |-> srt[n].COSTO, NUM_MOV |-> Num(srt[n].NUM_MOV)]]

\* the statement of /existencias-masiva-filtrada without its ORDER BY: the
\* rows in the order the table stores them
RunBulkUnordered(db, ps) ==
  LET hit == SelectSeq(db.MULT02, LAMBDA r :
               /\ \E i \in 1..Len(ps) : IsStr(ps[i]) /\ SqlStrEq(r.CVE_ART.v, ps[i].v)
               /\ r.CVE_ALM \in {1, 6})
  IN [k \in 1..Len(hit) |->
        [CVE_ART |-> hit[k].CVE_ART, CVE_ALM |-> Num(hit[k].CVE_ALM), EXIST |-> hit[k].EXIST]]

\* SELECT CVE_ART, CVE_ALM, EXIST FROM MULT02
\* WHERE CVE_ART IN (?, ..., ?) AND CVE_ALM IN (1, 6) ORDER BY CVE_ART, CVE_ALM
RunBulk(db, ps) ==
  LET hit == SelectSeq(db.MULT02, LAMBDA r :
               /\ \E i \in 1..Len(ps) : IsStr(ps[i]) /\ SqlStrEq(r.CVE_ART.v, ps[i].v)
               /\ r.CVE_ALM \in {1, 6})
      before(a, b) ==
        \/ StrLess(RTrim(a.CVE_ART.v), RTrim(b.CVE_ART.v))
        \/ SqlStrEq(a.CVE_ART.v, b.CVE_ART.v) /\ a.CVE_ALM < b.CVE_ALM
      nth(k) == hit[CHOOSE i \in 1..Len(hit) :
                      Cardinality({j \in 1..Len(hit) : before(hit[j], hit[i])}) = k - 1]
  IN [k \in 1..Len(hit) |->
        [CVE_ART |-> nth(k).CVE_ART, CVE_ALM |-> Num(nth(k).CVE_ALM), EXIST |-> nth(k).EXIST]]

\* SELECT DISTINCT CAMPLIB22 AS FAMILIA FROM INVE_CLIB02
\* WHERE CAMPLIB22 IS NOT NULL AND CAMPLIB22 <> ''
\*   [AND UPPER(TRIM(CAMPLIB22)) NOT IN (?, ..., ?)] ORDER BY FAMILIA
RunFamilias(db, sql, ps) ==
  LET S == {r.CAMPLIB22.v : r \in {x \in SeqToSet(db.INVE_CLIB02) :
               /\ x.CAMPLIB22 # NULL
               /\ ~SqlStrEq(x.CAMPLIB22.v, <<>>)
               /\ sql.notIn =>
                    \A i \in 1..Len(ps) : ~SqlStrEq(ToUpper(Trim(x.CAMPLIB22.v)), ps[i].v)}}
  IN [k \in 1..Cardinality(S) |->
        [FAMILIA |-> Str(CHOOSE v \in S : Cardinality({w \in S : StrLess(w, v)}) = k - 1)]]

\* the number of ? in a statement
SqlPlaceholders(sql) ==
  CASE sql.kind \in {"data", "flat"} ->
         (IF sql.price = "none" THEN 0 ELSE 1) + CountPlaceholders(sql.where)
    [] sql.kind = "count" -> CountPlaceholders(sql.where)
    [] sql.kind \in {"stock3", "costo", "bulk", "familias"} -> sql.nkeys
    [] sql.kind = "precio" -> 1 + sql.nkeys
    [] sql.kind = "productos" -> IF sql.byId THEN 1 ELSE 0

\* the statement cannot be executed: a parameter count that differs from the
\* placeholders, a NaN bound to a numeric cast, a negative FIRST or SKIP
SqlRejected(sql, ps) ==
  \/ Len(ps) # SqlPlaceholders(sql)
  \/ \E i \in 1..Len(ps) : ps[i] = NaN
  \/ sql.kind = "data" /\ sql.paged /\ (sql.first < 0 \/ sql.skip < 0)

\* the rows a statement returns when it executes
RunSql(st, q) ==
  CASE q.sql.kind = "data" -> Paged(q.sql, GroupedRows(st.db, q.sql, q.params))
    [] q.sql.kind = "count" -> RunCount(st.db, q.sql, q.params)
    [] q.sql.kind = "flat" -> FlatRows(st.db, q.sql, q.params)
    [] q.sql.kind = "stock3" -> RunStock3(st.db3, q.params)
    [] q.sql.kind = "costo" -> RunCosto(st.db, q.params)
    [] q.sql.kind = "precio" ->
         RunPrecio(st[q.db][q.sql.table], q.params)
    [] q.sql.kind = "bulk" -> RunBulk(st.db, q.params)
    [] q.sql.kind = "familias" -> RunFamilias(st.db, q.sql, q.params)
    \* SELECT * FROM PRODUCTOS [WHERE ID = ?]
    [] q.sql.kind = "productos" ->
         IF q.sql.byId
         THEN SelectSeq(st.db.PRODUCTOS, LAMBDA r : SqlStrEq(r.ID.v, q.params[1].v))
         ELSE st.db.PRODUCTOS

\* the stores after a DELETE FROM <table> in place of the statement
EffectOfDelete(st, q) ==
  [st EXCEPT ![q.db] = [t \in DOMAIN st[q.db] |-> <<>>]]

\* the stores after a statement has executed: every statement the handlers
\* pass to db.query and db3.query is a SELECT, which leaves each table as it is
Effect(st, q) == st

(***************************************************************************)
(* The revisions of index.js kept in the repository                        *)
(***************************************************************************)
\* src/src/index.js and the unnamed revisions part_000, part_001, part_003
Revs == {"index", "p000", "p001", "p003"}

\* the endpoints a revision registers: those of /clavesalternas, and
\* /existencias-masiva-filtrada, /familias, /productos and /productos/:id
Endpoints(rv) ==
  {"bulk", "familias", "productos", "productoId"} \cup
  CASE rv = "index" -> {"search", "search2", "filter", "filterRanges"}
    [] rv = "p001" -> {"search", "search2", "filter", "filterRanges"}
    [] rv = "p000" -> {"search", "filter"}
    [] rv = "p003" -> {"search", "filter"}

\* ALMACENES: warehouse id -> branch name
\* index.js; part_001 (no warehouse 3, and 10 named Fresnillo); part_003 (no
\* warehouse 10); part_000 has no pivot
ALMACENES(rv) ==
  CASE rv = "index" ->
         ("1" :> "Durango") @@ ("3" :> "Fresnillo") @@ ("5" :> "Mazatlan")
           @@ ("6" :> "Zacatecas") @@ ("7" :> "Queretaro") @@ ("10" :> "Fresnillo2")
    [] rv = "p001" ->
         ("1" :> "Durango") @@ ("5" :> "Mazatlan") @@ ("6" :> "Zacatecas")
           @@ ("7" :> "Queretaro") @@ ("10" :> "Fresnillo")
    [] rv = "p003" ->
         ("1" :> "Durango") @@ ("3" :> "Fresnillo") @@ ("5" :> "Mazatlan")
           @@ ("6" :> "Zacatecas") @@ ("7" :> "Queretaro")
    [] rv = "p000" -> <<>>

\* `ALM_${key}_EXIST`
RawKey(key) == "ALM_" \o key \o "_EXIST"

\* parseFloat(item[rawKey]) of a column value: a number is returned as it is
parseFloatValue(v) == IF IsNum(v) THEN v ELSE IF IsStr(v) THEN parseFloat(v.v) ELSE NaN

\* processExistencias without the default: existencias[name] = item[rawKey]
PivotItemNoDefault(alm, item) ==
  LET raw == {RawKey(k) : k \in DOMAIN alm}
      existencias ==
        [nm \in {alm[k] : k \in DOMAIN alm} |->
           Get(item, RawKey(CHOOSE x \in DOMAIN alm : alm[x] = nm))]
  IN [c \in (DOMAIN item) \ raw |-> item[c]] @@ [existencias |-> [t |-> "obj", v |-> existencias]]

\* one item of processExistencias: the ALM_<id>_EXIST columns of the
\* configured warehouses are replaced by the object existencias
PivotItem(alm, item) ==
  LET raw == {RawKey(k) : k \in DOMAIN alm}
      existencias ==
        [nm \in {alm[k] : k \in DOMAIN alm} |->
           LET k == CHOOSE x \in DOMAIN alm : alm[x] = nm
               v == Get(item, RawKey(k))
           IN IF Truthy(v) THEN parseFloatValue(v) ELSE Num(0)]
  IN [c \in (DOMAIN item) \ raw |-> item[c]] @@ [existencias |-> [t |-> "obj", v |-> existencias]]

processExistencias(alm, data) == [i \in 1..Len(data) |-> PivotItem(alm, data[i])]

\* data.map(item => item.CVE_ART.trim())
TrimmedKeys(data) == [i \in 1..Len(data) |-> Str(Trim(data[i].CVE_ART.v))]

\* map3[r.ART] = r.EXIST for each row in turn: the last row of a key wins
MapLookup(rows, keyField, valField, key) ==
  LET hits == {i \in 1..Len(rows) : rows[i][keyField] = key}
  IN IF hits = {} THEN UNDEF
     ELSE rows[CHOOSE i \in hits : \A m \in hits : m <= i][valField]

\* { ...item, f: v }
WithField(item, f, v) == (f :> v) @@ item

\* the catch branch of the merge: ALM_10_EXIST: 0
MergeStock3Failed(data) == [i \in 1..Len(data) |-> WithField(data[i], "ALM_10_EXIST", Num(0))]

\* the merge keeping only the rows the secondary store knows
MergeStock3Matched(data, res3) ==
  SelectSeq(MergeStock3Failed(data),
            LAMBDA r : MapLookup(res3, "ART", "EXIST", Str(Trim(r.CVE_ART.v))) # UNDEF)

\* the merge of the secondary stock: ALM_10_EXIST: map3[key] || 0
MergeStock3(data, res3) ==
  [i \in 1..Len(data) |->
     WithField(data[i], "ALM_10_EXIST",
               JsOr(MapLookup(res3, "ART", "EXIST", Str(Trim(data[i].CVE_ART.v))), Num(0)))]

\* search2 of index.js: DB_EXIST_ALM10 is the quantity, or 'N/A' when absent
MergeStock3Diag(data, res3) ==
  [i \in 1..Len(data) |->
     LET v == MapLookup(res3, "ART", "EXIST", Str(Trim(data[i].CVE_ART.v)))
     IN WithField(data[i], "DB_EXIST_ALM10", IF v # UNDEF THEN v ELSE Str(<<"N", "/", "A">>))]

\* search2 of index.js, catch branch: DB_EXIST_ALM10: 'ERROR'
MergeStock3DiagFailed(data) ==
  [i \in 1..Len(data) |-> WithField(data[i], "DB_EXIST_ALM10", Str(<<"E", "R", "R", "O", "R">>))]

(***************************************************************************)
(* The SQL statements of the handlers                                      *)
(***************************************************************************)
\* the selected scalar columns: alias -> <<table, column>>.  UNI_MED,
\* FCH_ULTCOM, CLA_SYR, CLA_LC, GENERO, PROV1 and PROV2 are projected like
\* DESCR and read by no handler; they are left out of the rows.
Cols(c) ==
  LET t1 == [CVE_ART |-> <<"T1", "CVE_ART">>, DESCR |-> <<"T1", "DESCR">>,
             ULT_COSTO |-> <<"T1", "ULT_COSTO">>]
      p000 == t1 @@
            [DIAM_INT |-> <<"T4", "CAMPLIB1">>, DIAM_EXT |-> <<"T4", "CAMPLIB2">>,
             ALTURA |-> <<"T4", "CAMPLIB3">>, SECCION |-> <<"T4", "CAMPLIB7">>,
             SIST_MED |-> <<"T4", "CAMPLIB17">>, DESC_ECOMM |-> <<"T4", "CAMPLIB19">>,
             FAMILIA |-> <<"T4", "CAMPLIB22">>]
      p003 == [PERFIL |-> <<"T4", "CAMPLIB13">>]
      index == [LIN_PROD |-> <<"T1", "LIN_PROD">>, COLOCACION |-> <<"T4", "CAMPLIB28">>]
  IN CASE c = "T1" -> t1
       \* part_000: T1 columns and the attribute columns without PERFIL
       [] c = "p000" -> p000
       \* part_003: PERFIL added
       [] c = "p003" -> p000 @@ p003
       \* index.js: LIN_PROD and COLOCACION added
       [] c = "index" -> p000 @@ p003 @@ index
       \* part_001 filters: T1.ULT_COSTO AS COSTO_PROM
       [] c = "p001" ->
            [a \in (DOMAIN (p000 @@ p003 @@ index)) \ {"ULT_COSTO"} |-> (p000 @@ p003 @@ index)[a]]
              @@ [COSTO_PROM |-> <<"T1", "ULT_COSTO">>]

\* the pivoted warehouse columns: alias -> CVE_ALM; part_001's filters leave
\* warehouse 3 out
StockCols(alm3) ==
  IF alm3
  THEN [ALM_1_EXIST |-> 1, ALM_3_EXIST |-> 3, ALM_5_EXIST |-> 5, ALM_6_EXIST |-> 6,
        ALM_7_EXIST |-> 7]
  ELSE [ALM_1_EXIST |-> 1, ALM_5_EXIST |-> 5, ALM_6_EXIST |-> 6, ALM_7_EXIST |-> 7]

\* one comparison of a character column with a placeholder
Atom(op, tbl, col, upper, coalesce, trim) ==
  [op |-> op, tbl |-> tbl, col |-> col, upper |-> upper, coalesce |-> coalesce,
   trim |-> trim]

TipoP == [k |-> "tipoP"]
OneEqOne == [k |-> "true"]
AnyOf(atoms) == [k |-> "anyOf", atoms |-> atoms]
NumPred(op, col, dec, tol) == [k |-> "num", op |-> op, col |-> col, dec |-> dec, tol |-> tol]

\* a SELECT with the fixed join topology
Select(kind, paged, first, skip, t2join, t3join, price, cols, stockCols, coalesce, where) ==
  [kind |-> kind, paged |-> paged, first |-> first, skip |-> skip,
   t2join |-> t2join, t3join |-> t3join, price |-> price, cols |-> cols,
   stockCols |-> stockCols, stockCoalesce |-> coalesce, where |-> where]

CountSelect(alias, t2join, t3join, where) ==
  [kind |-> "count", alias |-> alias, t2join |-> t2join, t3join |-> t3join,
   price |-> "none", where |-> where]

\* the statement of /clavesalternas/search.
\* index.js, part_001:
\*   WHERE UPPER(T1.CVE_ART) LIKE ? OR UPPER(T1.DESCR) LIKE ?
\*      OR UPPER(COALESCE(T2.CVE_ALTER, '')) LIKE ? OR UPPER(COALESCE(T4.CAMPLIB19, '')) LIKE ?
\* part_000 (SELECT FIRST 50, no price, no stock) and part_003:
\*   WHERE T2.TIPO = 'P' AND (T1.CVE_ART LIKE ? OR T1.DESCR LIKE ?
\*      OR T2.CVE_ALTER LIKE ? OR T3.NOMBRE LIKE ?)
SearchSql(rv) ==
  IF rv \in {"index", "p001"}
  THEN Select("data", FALSE, 0, 0, "left", FALSE, "cast", Cols("index"), StockCols(TRUE), TRUE,
              << AnyOf(<< Atom("like", "T1", "CVE_ART", TRUE, FALSE, FALSE),
                          Atom("like", "T1", "DESCR", TRUE, FALSE, FALSE),
                          Atom("like", "T2", "CVE_ALTER", TRUE, TRUE, FALSE),
                          Atom("like", "T4", "CAMPLIB19", TRUE, TRUE, FALSE) >>) >>)
  ELSE Select("data", rv = "p000", IF rv = "p000" THEN 50 ELSE 0, 0, "left", TRUE,
              IF rv = "p000" THEN "none" ELSE "raw",
              IF rv = "p000" THEN Cols("T1") ELSE Cols("p003"),
              IF rv = "p000" THEN <<>> ELSE StockCols(TRUE), FALSE,
              << TipoP,
                 AnyOf(<< Atom("like", "T1", "CVE_ART", FALSE, FALSE, FALSE),
                          Atom("like", "T1", "DESCR", FALSE, FALSE, FALSE),
                          Atom("like", "T2", "CVE_ALTER", FALSE, FALSE, FALSE),
                          Atom("like", "T3", "NOMBRE", FALSE, FALSE, FALSE) >>) >>)

\* the statement of /clavesalternas/search2:
\*   WHERE T1.CVE_ART = ? OR T2.CVE_ALTER = ? OR UPPER(T1.DESCR) LIKE ?
\* ungrouped in index.js; grouped, with the alternate key upper-cased, in part_001
Search2Sql(rv) ==
  IF rv = "index"
  THEN Select("flat", FALSE, 0, 0, "left", FALSE, "cast", Cols("T1"), <<>>, FALSE,
              << AnyOf(<< Atom("eq", "T1", "CVE_ART", FALSE, FALSE, FALSE),
                          Atom("eq", "T2", "CVE_ALTER", FALSE, FALSE, FALSE),
                          Atom("like", "T1", "DESCR", TRUE, FALSE, FALSE) >>) >>)
  ELSE Select("data", FALSE, 0, 0, "left", FALSE, "cast", Cols("index"), StockCols(TRUE), TRUE,
              << AnyOf(<< Atom("eq", "T1", "CVE_ART", FALSE, FALSE, FALSE),
                          Atom("eq", "T2", "CVE_ALTER", TRUE, FALSE, FALSE),
                          Atom("like", "T1", "DESCR", TRUE, FALSE, FALSE) >>) >>)

\* the batched statements of the enrichment steps, over n keys
BatchSql(kind, table, n) == [kind |-> kind, table |-> table, nkeys |-> n]

\* excluir of /familias: the families left out of the list
excluir ==
  << Str(<<"A", "C", "C", ".", " ", "A", "N", "C", "L", "A", "J", "E">>),
     Str(<<"A", "D", "H", "E", "S">>),
     Str(<<"A", "J", "U", "S", "T", "A", "D", "O", "R">>),
     Str(<<"A", "N", "I", "L", "L", "O">>),
     Str(<<"B", "A", "R", "R", "A">>),
     Str(<<"B", "U", "J", "E">>),
     Str(<<"C", "O", "M", "P", ".", " ", "S", "I", "S", "T", ".", " ", "H", "I", "D", "R", ".">>),
     Str(<<"C", "O", "M", "P", "R", "E", "S", "O", "R">>),
     Str(<<"C", "O", "N", "E", "X", "I", "O", "N", "E", "S">>),
     Str(<<"C", "O", "P", "A">>),
     Str(<<"C", "O", "P", "A", " ", "P", "I", "S", "T", "O", "N">>),
     Str(<<"D", "R", "I", "N", "G">>),
     Str(<<"E", "M", "B", "O", "L", "O", "S">>),
     Str(<<"E", "S", "T", "O", "P", "E", "R", "O", "S">>),
     Str(<<"E", "S", "T", "U", "C">>),
     Str(<<"H", "E", "R", "R", "A", "M">>),
     Str(<<"K", "I", "T">>),
     Str(<<"L", "U", "B", "R", "I", "C">>),
     Str(<<"M", "A", "N", "G", "U", "E", "R", "A", "S">>),
     Str(<<"S", "E", "L", "L", "O", " ", "M", "E", "C", "A", "N", "I", "C", "O">>),
     Str(<<"S", "U", "J", "E", "T", "A", "D", "O", "R">>),
     Str(<<"T", "A", "P", "A", "S">>),
     Str(<<"T", "U", "B", "O">>) >>

(***************************************************************************)
(* Parameter normalisation and predicate building                          *)
(***************************************************************************)
\* query ? query.toUpperCase().trim() : ''
SearchTerm(q) ==
  LET query == Get(q, "query") IN IF Truthy(query) THEN Trim(ToUpper(query.v)) ELSE <<>>

\* `%${searchTerm}%`
LikeTerm(term) == Str(<<"%">> \o term \o <<"%">>)

\* SUCURSAL ? SUCURSAL.toString() : '1', or SUCURSAL ? parseInt(SUCURSAL) : 1
CvePrecio(asInt, q) ==
  LET S == Get(q, "SUCURSAL")
  IN IF ~Truthy(S) THEN (IF asInt THEN Num(1) ELSE Str(<<"1">>))
     ELSE IF asInt THEN parseInt(S) ELSE S

\* parseInt(req.query.limit) || 100, and || 10 in part_001
LimitOf(rv, q) == JsOr(parseInt(Get(q, "limit")), Num(IF rv = "p001" THEN 10 ELSE 100))

\* parseInt(req.query.offset) || 0
OffsetOf(q) == JsOr(parseInt(Get(q, "offset")), Num(0))

Filter(alias, tbl, col, num) == [alias |-> alias, tbl |-> tbl, col |-> col, num |-> num]

\* filterMap of /clavesalternas/filter (dimensionalFields in part_001), with
\* numericDimensionalFields marked
FilterMap(rv) ==
  LET dims == << Filter("diam_int", "T4", "CAMPLIB1", TRUE), Filter("diam_ext", "T4", "CAMPLIB2", TRUE),
                 Filter("altura", "T4", "CAMPLIB3", TRUE), Filter("seccion", "T4", "CAMPLIB7", TRUE) >>
      familia == << Filter("familia", "T4", "CAMPLIB22", FALSE) >>
      perfil == << Filter("perfil", "T4", "CAMPLIB13", FALSE) >>
      sist_med == << Filter("sist_med", "T4", "CAMPLIB17", FALSE) >>
  IN CASE rv = "p000" -> familia \o dims \o sist_med
       [] rv = "p003" -> familia \o dims \o perfil \o sist_med
       [] rv = "index" ->
            familia \o dims \o perfil \o sist_med
              \o << Filter("colocacion", "T4", "CAMPLIB28", FALSE),
                    Filter("linea", "T1", "LIN_PROD", FALSE) >>
       [] rv = "p001" -> dims

\* dimensionalFields of index.js's /clavesalternas/filter-ranges; rangeFilters
\* of part_001's, which has no seccion
RangeFields(rv) == SubSeq(FilterMap("p001"), 1, IF rv = "index" THEN 4 ELSE 3)

\* extraFilters of index.js's /clavesalternas/filter-ranges
ExtraFilters ==
  << Filter("familia", "T4", "CAMPLIB22", FALSE), Filter("colocacion", "T4", "CAMPLIB28", FALSE),
     Filter("linea", "T1", "LIN_PROD", FALSE), Filter("perfil", "T4", "CAMPLIB13", FALSE),
     Filter("sist_med", "T4", "CAMPLIB17", FALSE) >>

\* whereClauses.push(c); params.unshift(...ps)
PushFront(acc, c, ps) == [acc EXCEPT !.where = Append(@, c), !.params = ps \o @]

\* whereClauses.push(c); params.push(...ps)
Push(acc, c, ps) == [acc EXCEPT !.where = Append(@, c), !.params = @ \o ps]

\* one iteration of the filterMap loop of index.js
FilterStep_index(acc, f, q) ==
  LET v == Get(q, f.alias)
  IN IF ~Truthy(v) THEN acc
     ELSE LET t == Trim(v.v)
          IN IF t = <<>> THEN acc
             ELSE IF f.num
             THEN LET n == parseFloat(ReplaceFirst(t, ",", "."))
                  IN IF n = NaN THEN acc
                     ELSE Push(acc, NumPred("abs", f.col, 5, Scale \div 100000), <<n>>)
             ELSE Push(acc, AnyOf(<<Atom("like", f.tbl, f.col, TRUE, TRUE, TRUE)>>),
                       <<Str(<<"%">> \o ToUpper(t) \o <<"%">>)>>)

\* one iteration of the filterMap loop of part_000: exact equality
FilterStep_p000(acc, f, q) ==
  LET v == Get(q, f.alias)
  IN IF ~Truthy(v) THEN acc
     ELSE LET t == Trim(ReplaceAll(v.v, "+", " "))
          IN IF t = <<>> THEN acc
             ELSE IF f.num
             THEN LET n == parseFloat(ReplaceFirst(t, ",", "."))
                  IN IF n = NaN THEN acc
                     ELSE Push(acc, NumPred("eq", f.col, 5, 0), <<n>>)
             ELSE Push(acc, AnyOf(<<Atom("like", f.tbl, f.col, TRUE, FALSE, TRUE)>>),
                       <<Str(<<"%">> \o ToUpper(t) \o <<"%">>)>>)

\* one iteration of the filterMap loop of part_003: `column` is not declared,
\* so the first filter that is present raises a ReferenceError
FilterStep_p003(acc, f, q) ==
  IF Truthy(Get(q, f.alias)) THEN [acc EXCEPT !.throws = TRUE] ELSE acc

\* one iteration of the dimensionalFields loop of part_001
FilterStep_p001(acc, f, q) ==
  LET v == Get(q, f.alias)
  IN IF ~Truthy(v) THEN acc
     ELSE LET n == parseFloat(ReplaceFirst(v.v, ",", "."))
          IN IF n = NaN THEN acc
             ELSE Push(acc, NumPred("abs", f.col, 4, Scale \div 1000), <<n>>)

\* if (familia) { ... = UPPER(TRIM(?)) } of part_001
FamiliaStep_p001(acc, q) ==
  LET v == Get(q, "familia")
  IN IF ~Truthy(v) THEN acc
     ELSE Push(acc, AnyOf(<<Atom("eqUpperTrim", "T4", "CAMPLIB22", TRUE, TRUE, TRUE)>>), <<v>>)

\* one iteration of the range loop of index.js: BETWEEN ? AND ?
RangeStep_index(acc, f, q) ==
  LET valMin == Get(q, f.alias \o "_min")
      valMax == Get(q, f.alias \o "_max")
  IN IF valMin # UNDEF /\ valMax # UNDEF
     THEN Push(acc, NumPred("between", f.col, 5, 0),
               <<parseFloat(ReplaceFirst(valMin.v, ",", ".")),
                 parseFloat(ReplaceFirst(valMax.v, ",", "."))>>)
     ELSE acc

\* one iteration of the extraFilters loop of index.js
ExtraStep_index(acc, f, q) ==
  LET v == Get(q, f.alias)
  IN IF ~Truthy(v) THEN acc
     ELSE Push(acc, AnyOf(<<Atom("like", f.tbl, f.col, TRUE, TRUE, TRUE)>>),
               <<Str(<<"%">> \o Trim(ToUpper(v.v)) \o <<"%">>)>>)

\* one iteration of rangeFilters.forEach of part_001: >= ? and <= ?
RangeStep_p001(acc, f, q) ==
  LET mn == Get(q, f.alias \o "_min")
      mx == Get(q, f.alias \o "_max")
      a1 == IF Truthy(mn)
            THEN Push(acc, NumPred("ge", f.col, 4, 0), <<parseFloat(ReplaceFirst(mn.v, ",", "."))>>)
            ELSE acc
  IN IF Truthy(mx)
     THEN Push(a1, NumPred("le", f.col, 4, 0), <<parseFloat(ReplaceFirst(mx.v, ",", "."))>>)
     ELSE a1

\* the body of the loop named kind
Step(kind, acc, f, q) ==
  CASE kind = "filter_index" -> FilterStep_index(acc, f, q)
    [] kind = "filter_p000" -> FilterStep_p000(acc, f, q)
    [] kind = "filter_p003" -> FilterStep_p003(acc, f, q)
    [] kind = "filter_p001" -> FilterStep_p001(acc, f, q)
    [] kind = "range_index" -> RangeStep_index(acc, f, q)
    [] kind = "extra_index" -> ExtraStep_index(acc, f, q)
    [] kind = "range_p001" -> RangeStep_p001(acc, f, q)

\* for (const alias in fields) { ... }: an exception ends the loop
RECURSIVE Loop(_, _, _, _)
Loop(kind, acc, fs, q) ==
  IF fs = <<>> \/ acc.throws THEN acc ELSE Loop(kind, Step(kind, acc, Head(fs), q), Tail(fs), q)

\* let whereClauses = [<first>]; let params = []
StartWhere(first) == [where |-> <<first>>, params |-> <<>>, throws |-> FALSE]

\* whereClauses and params of /clavesalternas/filter
BuildFilter(rv, q) ==
  CASE rv = "index" -> Loop("filter_index", StartWhere(TipoP), FilterMap("index"), q)
    [] rv = "p000" -> Loop("filter_p000", StartWhere(TipoP), FilterMap("p000"), q)
    [] rv = "p003" -> Loop("filter_p003", StartWhere(TipoP), FilterMap("p003"), q)
    [] rv = "p001" ->
         FamiliaStep_p001(Loop("filter_p001", StartWhere(OneEqOne), FilterMap("p001"), q), q)

\* whereClauses and params of /clavesalternas/filter-ranges
BuildRanges(rv, q) ==
  CASE rv = "index" ->
         Loop("extra_index",
              Loop("range_index", StartWhere(TipoP), RangeFields("index"), q),
              ExtraFilters, q)
    [] rv = "p001" ->
         FamiliaStep_p001(Loop("range_p001", StartWhere(OneEqOne), RangeFields("p001"), q), q)

(***************************************************************************)
(* The handlers.  A handler runs from one await to the next; Outcome is    *)
(* what a run leaves: the locals, the query it awaits or the response.     *)
(***************************************************************************)
NoQuery == [db |-> "none", sql |-> [kind |-> "none"], params |-> <<>>]
NoRes == [status |-> 0]
NoLoc == [none |-> TRUE]

Query(db, sql, params) == [db |-> db, sql |-> sql, params |-> params]

Issue(l, q) == [loc |-> l, next |-> q, res |-> NoRes, crashed |-> FALSE]
Respond(l, status, body) ==
  [loc |-> l, next |-> NoQuery, res |-> [status |-> status, body |-> body], crashed |-> FALSE]
\* an exception outside every try block: the async handler's promise rejects
\* and nothing answers the request
Throw(l) == [loc |-> l, next |-> NoQuery, res |-> NoRes, crashed |-> TRUE]

Handler(requireTerm, notFound, hasCount, enrich, stock3, pivot, envelope, errBody) ==
  [requireTerm |-> requireTerm, notFound |-> notFound, hasCount |-> hasCount,
   enrich |-> enrich, stock3 |-> stock3, pivot |-> pivot, envelope |-> envelope,
   errBody |-> errBody]

\* the shape of each handler: 400 on an empty term; 404 on an empty result
\* ("term", "id") or a zero count ("count"); a count query; the price and last-cost
\* enrichment; the secondary stock merge inside its own try ("caught"), under
\* the handler's try only ("uncaught"), with diagnostic markers ("diag") or
\* absent; the pivot; the response envelope; the body of a 500
HandlerOf(rv, ep) ==
  CASE ep = "search" ->
         (CASE rv \in {"index", "p001"} ->
                 Handler(TRUE, "none", FALSE, FALSE, "caught", TRUE, "array", "detalles")
            [] rv = "p003" ->
                 Handler(FALSE, "term", FALSE, FALSE, "none", TRUE, "array", "detalles")
            [] rv = "p000" ->
                 Handler(FALSE, "term", FALSE, FALSE, "none", FALSE, "array", "detalles"))
    [] ep = "search2" ->
         (CASE rv = "index" ->
                 Handler(TRUE, "none", FALSE, FALSE, "diag", FALSE, "meta", "gdscode")
            [] rv = "p001" ->
                 Handler(TRUE, "none", FALSE, FALSE, "uncaught", TRUE, "array", "plain"))
    [] ep = "filterRanges" ->
         (CASE rv = "index" ->
                 Handler(FALSE, "none", TRUE, FALSE, "caught", TRUE, "page", "plain")
            [] rv = "p001" ->
                 Handler(FALSE, "none", TRUE, TRUE, "uncaught", TRUE, "page", "plain"))
    \* the single-statement handlers: 500 with detalles, or with a fixed text
    [] ep \in {"bulk", "familias"} ->
         Handler(FALSE, "none", FALSE, FALSE, "none", FALSE, "array", "detalles")
    [] ep = "productos" ->
         Handler(FALSE, "none", FALSE, FALSE, "none", FALSE, "array", "fixed")
    [] ep = "productoId" ->
         Handler(FALSE, "id", FALSE, FALSE, "none", FALSE, "object", "fixed")
    [] ep = "filter" ->
         (CASE rv = "index" ->
                 Handler(FALSE, "none", TRUE, FALSE, "uncaught", TRUE, "pageShort", "plain")
            [] rv = "p001" ->
                 Handler(FALSE, "none", TRUE, TRUE, "uncaught", TRUE, "page", "plain")
            [] rv = "p003" ->
                 Handler(FALSE, "count", TRUE, FALSE, "none", TRUE, "page", "detalles")
            [] rv = "p000" ->
                 Handler(FALSE, "count", TRUE, FALSE, "none", FALSE, "page", "detalles"))

\* the locals of a handler when it reaches its first query
Locals(rv, ep, q, built) ==
     [term |-> SearchTerm(q),
      limit |-> LimitOf(rv, q),
      offset |-> OffsetOf(q),
      cvePrecio |-> CvePrecio(rv = "p003" \/ (rv = "index" /\ ep = "filterRanges"), q),
      where |-> built.where,
      params |-> built.params,
      throws |-> built.throws,
      total |-> UNDEF,
      data |-> <<>>,
      \* req.body.claves and req.params.id
      claves |-> Get(q, "claves"),
      id |-> Get(q, "id")]

\* the count statement and its parameters
CountQuery(rv, ep, l) ==
  CASE rv = "index" /\ ep = "filter" ->
         Query("db", CountSelect("TOTAL", "inner", FALSE, l.where), l.params)
    [] rv = "index" /\ ep = "filterRanges" ->
         Query("db", CountSelect("TOTAL_REGISTROS", "inner", FALSE, l.where), l.params)
    [] rv = "p001" ->
         Query("db", CountSelect("TOTAL", "none", FALSE, l.where), l.params)
    [] rv \in {"p000", "p003"} ->
         Query("db", CountSelect("TOTAL_REGISTROS", "left", TRUE, l.where), l.params)

\* the alias the handler reads the count from
CountAlias(rv, ep) ==
  IF rv = "p001" \/ (rv = "index" /\ ep = "filter") THEN "TOTAL" ELSE "TOTAL_REGISTROS"

\* the data statement and its parameters
DataQuery(rv, ep, l) ==
  LET like == LikeTerm(l.term)
      term == Str(l.term)
  IN CASE ep = "search" /\ rv \in {"index", "p001"} ->
            Query("db", SearchSql(rv), <<l.cvePrecio, like, like, like, like>>)
       [] ep = "search" /\ rv = "p003" ->
            Query("db", SearchSql(rv), <<l.cvePrecio, like, like, like, like>>)
       [] ep = "search" /\ rv = "p000" ->
            Query("db", SearchSql(rv), <<like, like, like, like>>)
       [] ep = "search2" ->
            Query("db", Search2Sql(rv), <<l.cvePrecio, term, term, like>>)
       [] ep = "filter" /\ rv = "index" ->
            Query("db", Select("data", TRUE, l.limit.v, l.offset.v, "inner", FALSE, "cast",
                               Cols("index"), StockCols(TRUE), TRUE, l.where),
                  <<l.cvePrecio>> \o l.params)
       [] ep = "filterRanges" /\ rv = "index" ->
            Query("db", Select("data", TRUE, l.limit.v, l.offset.v, "inner", FALSE, "cast",
                               Cols("index"), StockCols(TRUE), FALSE, l.where),
                  <<l.cvePrecio>> \o l.params)
       [] ep \in {"filter", "filterRanges"} /\ rv = "p001" ->
            Query("db", Select("data", TRUE, l.limit.v, l.offset.v, "none", FALSE, "none",
                               Cols("p001"), StockCols(FALSE), TRUE, l.where),
                  l.params)
       [] ep = "filter" /\ rv = "p003" ->
            Query("db", Select("data", TRUE, l.limit.v, l.offset.v, "left", TRUE, "raw",
                               Cols("p003"), StockCols(TRUE), FALSE, l.where),
                  <<l.cvePrecio>> \o l.params)
       [] ep = "filter" /\ rv = "p000" ->
            Query("db", Select("data", TRUE, l.limit.v, l.offset.v, "left", TRUE, "none",
                               Cols("p000"), <<>>, FALSE, l.where),
                  l.params)
       \* placeholders = claves.map(() => '?').join(', '); db.query(sql, claves)
       [] ep = "bulk" ->
            Query("db", BatchSql("bulk", "MULT02", Len(l.claves.v)), l.claves.v)
       \* db.query(sql, excluir); db.query(sql) in part_000 and part_003
       [] ep = "familias" ->
            IF rv \in {"index", "p001"}
            THEN Query("db", [kind |-> "familias", notIn |-> TRUE, nkeys |-> Len(excluir)], excluir)
            ELSE Query("db", [kind |-> "familias", notIn |-> FALSE, nkeys |-> 0], <<>>)
       [] ep = "productos" -> Query("db", [kind |-> "productos", byId |-> FALSE], <<>>)
       [] ep = "productoId" -> Query("db", [kind |-> "productos", byId |-> TRUE], <<l.id>>)

\* enrichWithPrecios with every price statement sent to the primary store
PrecioQueryPrimary(q, data) ==
  LET ids == TrimmedKeys(data)
      lista == Get(q, "lista_precios")
      cveLista == IF Truthy(lista) THEN lista ELSE Str(<<"4">>)
  IN Query("db", BatchSql("precio", "PRECIO_X_PROD02", Len(ids)), <<cveLista>> \o ids)

\* enrichWithPrecios: the price statement, routed by SUCURSAL
PrecioQuery(q, data) ==
  LET ids == TrimmedKeys(data)
      lista == Get(q, "lista_precios")
      sucursal == Get(q, "SUCURSAL")
      cveLista == IF Truthy(lista) THEN lista ELSE Str(<<"4">>)
      esSucursal3 == Truthy(sucursal) /\ sucursal.v = <<"3">>
  IN Query(IF esSucursal3 THEN "db3" ELSE "db",
           BatchSql("precio", IF esSucursal3 THEN "PRECIO_X_PROD03" ELSE "PRECIO_X_PROD02", Len(ids)),
           <<cveLista>> \o ids)

\* enrichWithPrecios, after the query: PRECIO: priceMap[key] !== undefined ? ... : 0.00
WithPrecios(data, results) ==
  [i \in 1..Len(data) |->
     LET v == MapLookup(results, "ART", "PRECIO", Str(Trim(data[i].CVE_ART.v)))
     IN WithField(data[i], "PRECIO", IF v # UNDEF THEN v ELSE Num(0))]

\* enrichWithPrecios, catch branch
WithPreciosFailed(data) == [i \in 1..Len(data) |-> WithField(data[i], "PRECIO", Num(0))]

\* enrichWithUltimoCosto: the movement statement
CostoQuery(data) == Query("db", BatchSql("costo", "MINVE02", Len(data)), TrimmedKeys(data))

\* enrichWithUltimoCosto, after the query: the first movement seen of each key
WithUltimoCosto(data, movimientos) ==
  [i \in 1..Len(data) |->
     LET hits == {n \in 1..Len(movimientos) :
                    Trim(movimientos[n].CVE_ART.v) = Trim(data[i].CVE_ART.v)}
     IN IF hits = {}
        THEN WithField(WithField(data[i], "ULTIMO_PROVEEDOR", Str(<<>>)), "ULT_COSTO", Num(0))
        ELSE LET m == movimientos[CHOOSE n \in hits : \A k \in hits : n <= k]
             IN WithField(WithField(data[i], "ULTIMO_PROVEEDOR",
                                    IF Truthy(m.CLAVE_CLPV) THEN Str(Trim(m.CLAVE_CLPV.v))
                                    ELSE Str(<<>>)),
                          "ULT_COSTO", JsOr(m.COSTO, Num(0)))]

\* enrichWithUltimoCosto, catch branch
WithUltimoCostoFailed(data) ==
  [i \in 1..Len(data) |->
     WithField(WithField(data[i], "ULTIMO_PROVEEDOR", Str(<<>>)), "ULT_COSTO", Num(0))]

\* the body of a 500
ErrorBody(h, msg) ==
  CASE h.errBody = "detalles" ->
         [k |-> "error", fields |-> [error |-> Str(<<"Error interno del servidor.">>), detalles |-> msg]]
    [] h.errBody = "plain" -> [k |-> "error", fields |-> [error |-> msg]]
    [] h.errBody = "fixed" ->
         [k |-> "error", fields |-> [error |-> Str(<<"Error al consultar la base de datos.">>)]]
    [] h.errBody = "gdscode" -> [k |-> "error", fields |-> [error |-> msg, sql_state |-> UNDEF]]

\* the body of the 400 of the search handlers
TermRequired == [k |-> "error", fields |-> [error |-> Str(<<"Debes proporcionar un termino de busqueda.">>)]]

\* `No se encontraron coincidencias para "${searchTerm}".`
NotFoundTerm(term) ==
  [k |-> "message",
   message |-> <<"No se encontraron coincidencias para ", "\"">> \o term \o <<"\"", ".">>]

\* the 404 of the filter handlers of part_000 and part_003
NotFoundFilter ==
  [k |-> "message",
   message |-> <<"No se encontraron resultados que coincidan con los criterios de filtro.">>]

\* the handler's catch: 500 with error.message of the failed query
Fail(h, l, db) ==
  Respond(l, 500, ErrorBody(h, IF db = "db3" THEN Str(<<"E", "3">>) ELSE Str(<<"E", "2">>)))

\* the pagination object of the response
Pagination(h, l) ==
  IF h.envelope = "pageShort"
  THEN [totalRecords |-> l.total, limit |-> l.limit]
  ELSE [currentPage |-> Num(MathFloorDiv(l.offset.v, l.limit.v) + 1),
        totalPages |-> Num(MathCeilDiv(l.total.v, l.limit.v)),
        totalRecords |-> l.total,
        limit |-> l.limit]

\* res.json(...) of the handler
Send(h, l) ==
  CASE h.envelope = "array" -> Respond(l, 200, [k |-> "array", data |-> l.data])
    [] h.envelope = "meta" ->
         Respond(l, 200, [k |-> "meta", data |-> l.data,
                          meta |-> [query_busqueda |-> Str(l.term), total |-> Num(Len(l.data))]])
    \* res.json(producto[0])
    [] h.envelope = "object" -> Respond(l, 200, [k |-> "object", data |-> <<l.data[1]>>])
    [] h.envelope \in {"page", "pageShort"} ->
         Respond(l, 200, [k |-> "page", data |-> l.data, pagination |-> Pagination(h, l)])

\* the pivot, when the handler has one, and the response
Finalize(rv, ep, l) ==
  Send(HandlerOf(rv, ep),
       [l EXCEPT !.data = IF HandlerOf(rv, ep).pivot
                          THEN processExistencias(ALMACENES(rv), l.data) ELSE l.data])

\* the secondary stock query issued for an empty page too
AfterEnrichAlways(rv, ep, l) ==
  IF HandlerOf(rv, ep).stock3 # "none"
  THEN Issue(l, Query("db3", BatchSql("stock3", "MULT03", Len(l.data)), TrimmedKeys(l.data)))
  ELSE Finalize(rv, ep, l)

\* after the enrichment: the secondary stock query, for a non-empty page
AfterEnrich(rv, ep, l) ==
  IF HandlerOf(rv, ep).stock3 # "none" /\ l.data # <<>>
  THEN Issue(l, Query("db3", BatchSql("stock3", "MULT03", Len(l.data)), TrimmedKeys(l.data)))
  ELSE Finalize(rv, ep, l)

\* the prelude with the test of /existencias-masiva-filtrada reduced to
\* !Array.isArray(claves)
PreludeArrayOnly(rv, ep, h, l) ==
  IF l.throws THEN Throw(l)
  ELSE IF h.requireTerm /\ l.term = <<>> THEN Respond(l, 400, TermRequired)
  ELSE IF ep = "bulk" /\ l.claves.t # "arr"
  THEN Respond(l, 400, [k |-> "error", fields |->
                 [error |-> Str(<<"Se requiere un arreglo no vacio de claves de producto.">>)]])
  ELSE IF h.hasCount THEN Issue(l, CountQuery(rv, ep, l))
  ELSE Issue(l, DataQuery(rv, ep, l))

\* the synchronous prelude of a handler, up to its first await
Prelude(rv, ep, h, l) ==
  IF l.throws THEN Throw(l)
  ELSE IF h.requireTerm /\ l.term = <<>> THEN Respond(l, 400, TermRequired)
  \* if (!Array.isArray(claves) || claves.length === 0)
  ELSE IF ep = "bulk" /\ (l.claves.t # "arr" \/ Len(l.claves.v) = 0)
  THEN Respond(l, 400, [k |-> "error", fields |->
                 [error |-> Str(<<"Se requiere un arreglo no vacio de claves de producto.">>)]])
  ELSE IF h.hasCount THEN Issue(l, CountQuery(rv, ep, l))
  ELSE Issue(l, DataQuery(rv, ep, l))

Start(rv, ep, q) ==
  Prelude(rv, ep, HandlerOf(rv, ep),
          Locals(rv, ep, q,
                 CASE ep = "filter" -> BuildFilter(rv, q)
                   [] ep = "filterRanges" -> BuildRanges(rv, q)
                   [] OTHER -> [where |-> <<>>, params |-> <<>>, throws |-> FALSE]))

\* the handler after the count query
AfterCount(rv, ep, q, l, rows) ==
  LET h == HandlerOf(rv, ep)
      l2 == [l EXCEPT !.total = JsOr(Get(rows[1], CountAlias(rv, ep)), Num(0))]
  IN IF h.notFound = "count" /\ l2.total.v = 0 /\ (DOMAIN q) \ {"limit", "offset"} # {}
     THEN Respond(l2, 404, NotFoundFilter)
     ELSE Issue(l2, DataQuery(rv, ep, l2))

\* the handler after the data query
AfterData(rv, ep, q, l, rows) ==
  LET h == HandlerOf(rv, ep)
      l2 == [l EXCEPT !.data = rows]
  IN IF h.notFound = "term" /\ rows = <<>> /\ l.term # <<>>
     THEN Respond(l2, 404, NotFoundTerm(l.term))
     ELSE IF h.notFound = "id" /\ rows = <<>>
     THEN Respond(l2, 404, [k |-> "message", message |-> <<"Producto no encontrado.">>])
     ELSE IF h.enrich /\ rows # <<>> THEN Issue(l2, PrecioQuery(q, rows))
     ELSE AfterEnrich(rv, ep, l2)

\* enrichWithPrecios has returned; enrichWithUltimoCosto issues its query
AfterPrecio(l, data) == LET l2 == [l EXCEPT !.data = data] IN Issue(l2, CostoQuery(data))

\* the handler after the secondary stock query
AfterStock3(rv, ep, l, rows) ==
  Finalize(rv, ep, [l EXCEPT !.data = IF HandlerOf(rv, ep).stock3 = "diag"
                                      THEN MergeStock3Diag(l.data, rows)
                                      ELSE MergeStock3(l.data, rows)])

\* the secondary stock query failed
AfterStock3Failed(rv, ep, l) ==
  LET h == HandlerOf(rv, ep)
  IN CASE h.stock3 = "caught" -> Finalize(rv, ep, [l EXCEPT !.data = MergeStock3Failed(l.data)])
       [] h.stock3 = "diag" -> Finalize(rv, ep, [l EXCEPT !.data = MergeStock3DiagFailed(l.data)])
       [] h.stock3 = "uncaught" -> Fail(h, l, "db3")

(***************************************************************************)
(* Requests                                                                *)
(***************************************************************************)
\* a req.query with no parameter
Absent == [x \in {} |-> UNDEF]

\* req.query of the requests to an endpoint
Requests(ep) ==
  LET \* raw values of the query parameter of the search endpoints
      RawQueries ==
        { Str(<<>>), Str(<<" ">>), Str(<<"r", "e", "t">>), Str(<<"z", "z">>), Str(<<"A", "1">>),
          Str(<<"B", "2">>) }
      \* raw limit and offset
      Pagings ==
        { Absent,
          [limit |-> Str(<<"-", "2">>)],
          [limit |-> Str(<<"0">>), offset |-> Str(<<"-", "1">>)],
          [limit |-> Str(<<"x">>), offset |-> Str(<<"1">>)],
          [limit |-> Str(<<"1">>), offset |-> Str(<<"2">>)],
          [limit |-> Str(<<"1">>)] }
      \* raw branch
      Branches == { Absent, [SUCURSAL |-> Str(<<"3">>)], [SUCURSAL |-> Str(<<"1">>)] }
      \* raw values of a dimensional filter: not a number, blank, and numbers
      \* written with a point and with a comma
      RawNums ==
        { Str(<<"x">>), Str(<<" ">>),
          Str(<<"1", ".", "0", "0", "0", "0", "1">>),
          Str(<<"1", ",", "0", "0", "0", "4">>) }
      \* raw values of a text filter
      RawTexts == { Str(<<"r", "e", "t">>), Str(<<"z", "+">>) }
      \* raw (min, max) of a range filter
      RawRanges ==
        { [min |-> Str(<<"1">>), max |-> Str(<<"2">>)],
          [min |-> Str(<<"x">>), max |-> Str(<<"2">>)],
          [min |-> Str(<<"1">>), max |-> UNDEF],
          [min |-> UNDEF, max |-> Str(<<"1", ",", "5">>)],
          [min |-> Str(<<>>), max |-> Str(<<"2">>)] }
      NumNames == {"diam_int", "diam_ext", "altura", "seccion"}
      TextNames == {"familia", "perfil", "sist_med", "colocacion", "linea"}
      \* at most MaxFilters attribute filters in a request
      Chosen == {X \in SUBSET (NumNames \cup TextNames) : Cardinality(X) <= MaxFilters}
      \* the attribute filters of a /clavesalternas/filter request
      FilterChoices ==
        UNION { {f \in [D -> RawNums \cup RawTexts] :
                   \A n \in D : f[n] \in (IF n \in NumNames THEN RawNums ELSE RawTexts)} :
                D \in Chosen }
      \* the attribute filters of a /clavesalternas/filter-ranges request
      RangeQuery(D, f) ==
        LET mins == {n \in D \cap NumNames : f[n].min # UNDEF}
            maxs == {n \in D \cap NumNames : f[n].max # UNDEF}
        IN [k \in {n \o "_min" : n \in mins} |-> f[CHOOSE n \in mins : k = n \o "_min"].min]
             @@ [k \in {n \o "_max" : n \in maxs} |-> f[CHOOSE n \in maxs : k = n \o "_max"].max]
             @@ [k \in D \cap TextNames |-> f[k]]
      RangeChoices ==
        UNION { {RangeQuery(D, f) : f \in {g \in [D -> RawRanges \cup RawTexts] :
                   \A n \in D : g[n] \in (IF n \in NumNames THEN RawRanges ELSE RawTexts)}} :
                D \in Chosen }
  IN CASE ep \in {"search", "search2"} ->
            {a @@ b : a \in {Absent} \cup {[query |-> x] : x \in RawQueries}, b \in Branches}
       \* req.body of /existencias-masiva-filtrada: claves missing, not an
       \* array, empty, and arrays of keys with a repeated key, a key written
       \* with trailing blanks and a key of no product
       [] ep = "bulk" ->
            { Absent, [claves |-> NULL], [claves |-> Str(<<"A", "1">>)], [claves |-> Arr(<<>>)],
              [claves |-> Arr(<<Str(<<"A", "1">>)>>)],
              [claves |-> Arr(<<Str(KeyC), Str(<<"A", "1">>)>>)],
              [claves |-> Arr(<<Str(KeyA), Str(KeyB), Str(KeyA)>>)],
              [claves |-> Arr(<<Str(<<"Z", "9">>)>>)] }
       [] ep \in {"familias", "productos"} -> {Absent}
       \* req.params of /productos/:id
       [] ep = "productoId" -> {[id |-> Str(<<"1">>)], [id |-> Str(<<"9">>)]}
       [] ep = "filter" -> {a @@ b @@ c : a \in Pagings, b \in Branches, c \in FilterChoices}
       [] ep = "filterRanges" -> {a @@ b @@ c : a \in Pagings, b \in Branches, c \in RangeChoices}

(***************************************************************************)
(* The connection pools of db.js and db3.js and the wrapper query().  A    *)
(* client is a handler that runs; it awaits each query() before its next   *)
(* statement.  A call of query() is the record of what the wrapper has     *)
(* done for it: got is whether pool.get delivered a connection, detached   *)
(* counts db.detach(), settles counts resolve() and reject().  The pool    *)
(* itself is node-firebird's: get() queues the callback and check() hands  *)
(* a connection to the first callback queued while fewer than PoolSize     *)
(* are out; a detached connection goes back to the pool, which checks.     *)
(***************************************************************************)
\* Firebird.pool(5, options)
PoolSize == 5

\* the pool of db.js and the pool of db3.js
PoolNames == {"db", "db3"}

Clients == 1..MaxClients

\* a call of query() by a handler that holds `held` connections
Call(phase, db, held, got, detached, settles, outcome) ==
  [phase |-> phase, db |-> db, held |-> held, got |-> got, detached |-> detached,
   settles |-> settles, outcome |-> outcome]

\* a handler that has called query() not yet
NoCall == Call("idle", "none", 0, FALSE, 0, 0, "none")

(***************************************************************************)
(* The state machine                                                       *)
(***************************************************************************)
NoReq == [ep |-> "none", q |-> Absent]

Init ==
  /\ rev \in Revs
  /\ store \in Stores
  /\ pc = "idle"
  /\ req = NoReq
  /\ loc = NoLoc
  /\ pending = NoQuery
  /\ res = NoRes
  /\ issued = <<>>
  \* a pool: the connections handed out and the callbacks of pool.get that wait
  /\ pool = [s \in PoolNames |-> [inUse |-> 0, waiting |-> <<>>]]
  /\ calls = [c \in Clients |-> NoCall]

\* the statement awaited, if it was executed, has had its effect on the
\* stores; the handler stops at its next await, at its response, or on an
\* exception
Apply(o, result) ==
  /\ loc' = o.loc
  /\ pending' = o.next
  /\ res' = o.res
  /\ pc' = IF o.crashed THEN "crashed" ELSE IF o.res # NoRes THEN "done" ELSE "await"
  /\ issued' = LET settled == IF issued = <<>> THEN issued
                               ELSE [issued EXCEPT ![Len(issued)].result = result]
               IN IF o.next # NoQuery
                  THEN Append(settled, [query |-> o.next, result |-> "pending"])
                  ELSE settled
  /\ store' = IF result = "resolved" THEN Effect(store, pending) ELSE store
  /\ UNCHANGED <<rev, pool, calls>>

\* GET /clavesalternas/search: the handler runs up to its first await
ReceiveSearch ==
  /\ pc = "idle"
  /\ "search" \in Endpoints(rev)
  /\ \E q \in Requests("search") :
       /\ req' = [ep |-> "search", q |-> q]
       /\ Apply(Start(rev, "search", q), "none")

\* GET /clavesalternas/search2: the handler runs up to its first await
ReceiveSearch2 ==
  /\ pc = "idle"
  /\ "search2" \in Endpoints(rev)
  /\ \E q \in Requests("search2") :
       /\ req' = [ep |-> "search2", q |-> q]
       /\ Apply(Start(rev, "search2", q), "none")

\* GET /clavesalternas/filter: the handler runs up to its first await
ReceiveFilter ==
  /\ pc = "idle"
  /\ "filter" \in Endpoints(rev)
  /\ \E q \in Requests("filter") :
       /\ req' = [ep |-> "filter", q |-> q]
       /\ Apply(Start(rev, "filter", q), "none")

\* GET /clavesalternas/filter-ranges: the handler runs up to its first await
ReceiveFilterRanges ==
  /\ pc = "idle"
  /\ "filterRanges" \in Endpoints(rev)
  /\ \E q \in Requests("filterRanges") :
       /\ req' = [ep |-> "filterRanges", q |-> q]
       /\ Apply(Start(rev, "filterRanges", q), "none")

\* POST /existencias-masiva-filtrada: the handler runs up to its await
ReceiveBulk ==
  /\ pc = "idle"
  /\ "bulk" \in Endpoints(rev)
  /\ \E q \in Requests("bulk") :
       /\ req' = [ep |-> "bulk", q |-> q]
       /\ Apply(Start(rev, "bulk", q), "none")

\* GET /familias: the handler runs up to its await
ReceiveFamilias ==
  /\ pc = "idle"
  /\ "familias" \in Endpoints(rev)
  /\ \E q \in Requests("familias") :
       /\ req' = [ep |-> "familias", q |-> q]
       /\ Apply(Start(rev, "familias", q), "none")

\* GET /productos: the handler runs up to its await
ReceiveProductos ==
  /\ pc = "idle"
  /\ "productos" \in Endpoints(rev)
  /\ \E q \in Requests("productos") :
       /\ req' = [ep |-> "productos", q |-> q]
       /\ Apply(Start(rev, "productos", q), "none")

\* GET /productos/:id: the handler runs up to its await
ReceiveProductoId ==
  /\ pc = "idle"
  /\ "productoId" \in Endpoints(rev)
  /\ \E q \in Requests("productoId") :
       /\ req' = [ep |-> "productoId", q |-> q]
       /\ Apply(Start(rev, "productoId", q), "none")

Awaiting(kinds) == pc = "await" /\ pending.sql.kind \in kinds

\* the store executes the statement and the promise resolves with its rows
CanResolve == ~SqlRejected(pending.sql, pending.params)

CountResolves ==
  /\ Awaiting({"count"})
  /\ CanResolve
  /\ Apply(AfterCount(rev, req.ep, req.q, loc, RunSql(store, pending)), "resolved")
  /\ UNCHANGED req

CountRejects ==
  /\ Awaiting({"count"})
  /\ Apply(Fail(HandlerOf(rev, req.ep), loc, pending.db), "rejected")
  /\ UNCHANGED req

DataResolves ==
  /\ Awaiting({"data", "flat", "bulk", "familias", "productos"})
  /\ CanResolve
  /\ Apply(AfterData(rev, req.ep, req.q, loc, RunSql(store, pending)), "resolved")
  /\ UNCHANGED req

\* the catch of the handler issuing the failed statement a second time
DataRejectsRetry ==
  /\ Awaiting({"data", "flat", "bulk", "familias", "productos"})
  /\ Apply(IF Len(issued) < 3 THEN Issue(loc, pending)
           ELSE Fail(HandlerOf(rev, req.ep), loc, pending.db), "rejected")
  /\ UNCHANGED req

DataRejects ==
  /\ Awaiting({"data", "flat", "bulk", "familias", "productos"})
  /\ Apply(Fail(HandlerOf(rev, req.ep), loc, pending.db), "rejected")
  /\ UNCHANGED req

PrecioResolves ==
  /\ Awaiting({"precio"})
  /\ CanResolve
  /\ Apply(AfterPrecio(loc, WithPrecios(loc.data, RunSql(store, pending))), "resolved")
  /\ UNCHANGED req

PrecioRejects ==
  /\ Awaiting({"precio"})
  /\ Apply(AfterPrecio(loc, WithPreciosFailed(loc.data)), "rejected")
  /\ UNCHANGED req

CostoResolves ==
  /\ Awaiting({"costo"})
  /\ CanResolve
  /\ Apply(AfterEnrich(rev, req.ep,
                       [loc EXCEPT !.data = WithUltimoCosto(loc.data, RunSql(store, pending))]), "resolved")
  /\ UNCHANGED req

CostoRejects ==
  /\ Awaiting({"costo"})
  /\ Apply(AfterEnrich(rev, req.ep, [loc EXCEPT !.data = WithUltimoCostoFailed(loc.data)]), "rejected")
  /\ UNCHANGED req

Stock3Resolves ==
  /\ Awaiting({"stock3"})
  /\ CanResolve
  /\ Apply(AfterStock3(rev, req.ep, loc, RunSql(store, pending)), "resolved")
  /\ UNCHANGED req

Stock3Rejects ==
  /\ Awaiting({"stock3"})
  /\ Apply(AfterStock3Failed(rev, req.ep, loc), "rejected")
  /\ UNCHANGED req

\* the response has been sent and the locals of the handler stay behind
FinishKeepingLocals ==
  /\ pc = "done"
  /\ pc' = "idle"
  /\ req' = NoReq
  /\ pending' = NoQuery
  /\ res' = NoRes
  /\ issued' = <<>>
  /\ UNCHANGED <<rev, store, loc, pool, calls>>

\* the response has been sent; the server waits for the next request
Finish ==
  /\ pc = "done"
  /\ pc' = "idle"
  /\ req' = NoReq
  /\ loc' = NoLoc
  /\ pending' = NoQuery
  /\ res' = NoRes
  /\ issued' = <<>>
  /\ UNCHANGED <<rev, store, pool, calls>>

\* the request whose handler threw is never answered; the server goes on
Abandon ==
  /\ pc = "crashed"
  /\ pc' = "idle"
  /\ req' = NoReq
  /\ loc' = NoLoc
  /\ pending' = NoQuery
  /\ res' = NoRes
  /\ issued' = <<>>
  /\ UNCHANGED <<rev, store, pool, calls>>

Next ==
  \/ ReceiveSearch
  \/ ReceiveSearch2
  \/ ReceiveFilter
  \/ ReceiveFilterRanges
  \/ ReceiveBulk
  \/ ReceiveFamilias
  \/ ReceiveProductos
  \/ ReceiveProductoId
  \/ CountResolves
  \/ CountRejects
  \/ DataResolves
  \/ DataRejects
  \/ PrecioResolves
  \/ PrecioRejects
  \/ CostoResolves
  \/ CostoRejects
  \/ Stock3Resolves
  \/ Stock3Rejects
  \/ Finish
  \/ Abandon

Spec == Init /\ [][Next]_vars

\* the promise of the query awaited settles: the store rejects or resolves it
QuerySettles ==
  \/ CountRejects \/ DataRejects \/ PrecioRejects \/ CostoRejects \/ Stock3Rejects
  \/ CountResolves \/ DataResolves \/ PrecioResolves \/ CostoResolves \/ Stock3Resolves

\* the server with stores that settle every query they are sent
LiveSpec == Spec /\ WF_vars(QuerySettles)

\* the variables of the handlers, which the pools leave alone
server == <<rev, store, pc, req, loc, pending, res, issued>>

\* pool.check() after a connection of pool s has come back: the first
\* callback that waits is given the place, or the place becomes free
Release(p, cs, s) ==
  IF p[s].waiting = <<>>
  THEN [pool |-> [p EXCEPT ![s].inUse = @ - 1], calls |-> cs]
  ELSE [pool |-> [p EXCEPT ![s].waiting = Tail(@)],
        calls |-> [cs EXCEPT ![Head(p[s].waiting)].phase = "attaching"]]

\* query() called while the handler's previous query() is still out
CallQueryNested(c, s) ==
  /\ calls[c].phase \in {"idle", "settled", "running"}
  /\ IF pool[s].inUse < PoolSize
     THEN /\ pool' = [pool EXCEPT ![s].inUse = @ + 1]
          /\ calls' = [calls EXCEPT ![c] = Call("attaching", s, @.held, FALSE, 0, 0, "none")]
     ELSE /\ pool' = [pool EXCEPT ![s].waiting = Append(@, c)]
          /\ calls' = [calls EXCEPT ![c] = Call("waiting", s, @.held, FALSE, 0, 0, "none")]
  /\ UNCHANGED server

\* a handler whose previous query() has settled, if it made one, calls
\* query(sql, params) of db.js or db3.js: new Promise, pool.get(callback)
CallQuery(c, s) ==
  /\ calls[c].phase \in {"idle", "settled"}
  /\ IF pool[s].inUse < PoolSize
     THEN /\ pool' = [pool EXCEPT ![s].inUse = @ + 1]
          /\ calls' = [calls EXCEPT ![c] = Call("attaching", s, @.held, FALSE, 0, 0, "none")]
     ELSE /\ pool' = [pool EXCEPT ![s].waiting = Append(@, c)]
          /\ calls' = [calls EXCEPT ![c] = Call("waiting", s, @.held, FALSE, 0, 0, "none")]
  /\ UNCHANGED server

\* the callback of pool.get: if (err) return reject(err); otherwise
\* db.query(sql, params, callback) is sent on the connection
GetCallback(c, err) ==
  /\ calls[c].phase = "attaching"
  /\ IF err
     THEN LET r == Release(pool, calls, calls[c].db)
          IN /\ pool' = r.pool
             /\ calls' = [r.calls EXCEPT ![c].phase = "settled", ![c].db = "none",
                                         ![c].settles = @ + 1, ![c].outcome = "rejected"]
     ELSE /\ calls' = [calls EXCEPT ![c].phase = "running", ![c].got = TRUE, ![c].held = @ + 1]
          /\ UNCHANGED pool
  /\ UNCHANGED server

\* the callback of db.query with the detach after the test of err
QueryCallbackNoDetachOnError(c, err) ==
  /\ calls[c].phase = "running"
  /\ IF err
     THEN /\ calls' = [calls EXCEPT ![c].phase = "settled", ![c].db = "none",
                                    ![c].settles = @ + 1, ![c].outcome = "rejected"]
          /\ UNCHANGED pool
     ELSE LET r == Release(pool, calls, calls[c].db)
          IN /\ pool' = r.pool
             /\ calls' = [r.calls EXCEPT ![c].phase = "settled", ![c].db = "none",
                                         ![c].held = @ - 1, ![c].detached = @ + 1,
                                         ![c].settles = @ + 1, ![c].outcome = "resolved"]
  /\ UNCHANGED server

\* the callback of db.query: db.detach(); if (err) return reject(err);
\* resolve(result)
QueryCallback(c, err) ==
  /\ calls[c].phase = "running"
  /\ LET r == Release(pool, calls, calls[c].db)
     IN /\ pool' = r.pool
        /\ calls' = [r.calls EXCEPT ![c].phase = "settled", ![c].db = "none",
                                    ![c].held = @ - 1, ![c].detached = @ + 1,
                                    ![c].settles = @ + 1,
                                    ![c].outcome = IF err THEN "rejected" ELSE "resolved"]
  /\ UNCHANGED server

\* the pools before the first request
PoolInit == rev = "index" /\ store = (CHOOSE st \in Stores : TRUE) /\ Init

PoolNext ==
  \/ \E c \in Clients, s \in PoolNames : CallQuery(c, s)
  \/ \E c \in Clients, err \in BOOLEAN : GetCallback(c, err)
  \/ \E c \in Clients, err \in BOOLEAN : QueryCallback(c, err)

\* the handlers and the two pools
PoolSpec == PoolInit /\ [][PoolNext]_vars

(***************************************************************************)
(* The claims of the specification                                         *)
(***************************************************************************)
\* the request has been answered
Answered == pc = "done"

\* the queries of the request of one kind with one result
Settled(kinds, result) ==
  {i \in 1..Len(issued) : issued[i].query.sql.kind \in kinds /\ issued[i].result = result}

\* no query on the primary store failed
PrimaryOk == \A i \in 1..Len(issued) : issued[i].query.db = "db" => issued[i].result = "resolved"

\* the rows of the response body
Rows == IF res.status = 200 THEN res.body.data ELSE <<>>

\* the stock of the secondary store as a response row reports it
SecondaryStock(row) ==
  IF HandlerOf(rev, req.ep).pivot
  THEN row.existencias.v[ALMACENES(rev)["10"]]
  ELSE row.DB_EXIST_ALM10

\* C1: on /search, /search2, /filter and /filter-ranges a request whose
\* primary queries succeed and whose secondary stock query fails is answered
\* 200 with the rows of the primary query, each with secondary stock 0; it is
\* never answered 500.
C1_SecondaryFailureDegrades ==
  (Answered /\ PrimaryOk /\ Settled({"stock3"}, "rejected") # {})
    => /\ res.status = 200
       /\ \A i \in 1..Len(Rows) : SecondaryStock(Rows[i]) = Num(0)
       /\ \A d \in Settled({"data", "flat"}, "resolved") :
            [i \in 1..Len(Rows) |-> Rows[i].CVE_ART]
              = [i \in 1..Len(RunSql(store, issued[d].query)) |->
                   RunSql(store, issued[d].query)[i].CVE_ART]

\* the mathematical floor and ceiling of a / b for b > 0
FloorOf(a, b) == CHOOSE k \in -(Abs(a) + 1)..(Abs(a) + 1) : k * b <= a /\ a < (k + 1) * b
CeilOf(a, b) == CHOOSE k \in -(Abs(a) + 1)..(Abs(a) + 1) : (k - 1) * b < a /\ a <= k * b

\* C2: every { data, pagination } response of /filter and /filter-ranges
\* carries totalPages = ceil(totalRecords / limit) and
\* currentPage = floor(offset / limit) + 1.
C2_PaginationArithmetic ==
  (Answered /\ req.ep \in {"filter", "filterRanges"} /\ res.status = 200)
    => /\ {"totalPages", "currentPage", "totalRecords", "limit"} \subseteq DOMAIN res.body.pagination
       /\ res.body.pagination.totalPages
            = Num(CeilOf(res.body.pagination.totalRecords.v, res.body.pagination.limit.v))
       /\ res.body.pagination.currentPage = Num(FloorOf(loc.offset.v, loc.limit.v) + 1)

\* C3: the limit and the offset a paged query is issued with are integers,
\* limit >= 1 and offset >= 0, whatever the raw values of the request.
C3_LimitOffsetNormalised ==
  \A i \in 1..Len(issued) :
    (issued[i].query.sql.kind = "data" /\ issued[i].query.sql.paged)
      => issued[i].query.sql.first >= 1 /\ issued[i].query.sql.skip >= 0

\* C4: /search with a non-empty term whose query returns no row answers 404
\* with a message naming the term.
C4_SearchNotFound ==
  (/\ Answered /\ req.ep = "search" /\ loc.term # <<>>
   /\ \E d \in Settled({"data"}, "resolved") : RunSql(store, issued[d].query) = <<>>)
    => /\ res.status = 404
       /\ res.body.k = "message"
       /\ Contains(res.body.message, loc.term)

\* C5: /search with an empty or absent query over a store with no product
\* answers 200 with an empty array, when no query fails; not 400, not 404.
C5_SearchEmptyTerm ==
  (/\ Answered /\ req.ep = "search" /\ loc.term = <<>>
   /\ store.db.INVE02 = <<>>
   /\ Settled({"data", "stock3"}, "rejected") = {})
    => /\ res.status = 200
       /\ res.body = [k |-> "array", data |-> <<>>]

\* the quantity a stock table holds of a product in a warehouse; 0 when the
\* table has no row of them or the row holds NULL
StockHeld(tbl, art, alm) ==
  LET S == {i \in 1..Len(tbl) : Trim(tbl[i].CVE_ART.v) = Trim(art) /\ tbl[i].CVE_ALM = alm}
  IN IF S = {} \/ \A i \in S : tbl[i].EXIST = NULL
     THEN Num(0)
     ELSE tbl[CHOOSE i \in S : tbl[i].EXIST # NULL].EXIST

\* the quantity the stores hold for warehouse key k of the pivot; warehouse 10
\* is warehouse 3 of the secondary store, known only when its query succeeded
StockExpected(art, k) ==
  IF k = "10"
  THEN (IF Settled({"stock3"}, "resolved") # {}
        THEN StockHeld(store.db3.MULT03, art, 3) ELSE Num(0))
  ELSE StockHeld(store.db.MULT02, art,
                 CHOOSE n \in {1, 3, 5, 6, 7} : IntToStr(n) = <<k>>)

\* C6: every row pivoted by processExistencias has in existencias an entry for
\* every name of ALMACENES; the entry is a number, the stock quantity of the
\* product in that warehouse, or 0 when the quantity is null or missing.
C6_PivotComplete ==
  (Answered /\ res.status = 200 /\ HandlerOf(rev, req.ep).pivot)
    => \A i \in 1..Len(Rows) : \A k \in DOMAIN ALMACENES(rev) :
         /\ Rows[i].existencias.t = "obj"
         /\ ALMACENES(rev)[k] \in DOMAIN Rows[i].existencias.v
         /\ Rows[i].existencias.v[ALMACENES(rev)[k]].t = "num"
         /\ Rows[i].existencias.v[ALMACENES(rev)[k]] = StockExpected(Rows[i].CVE_ART.v, k)

\* a pivoted response with a held quantity, a missing quantity and a quantity
\* of the secondary store in one row
C6_Witness ==
  /\ Answered /\ res.status = 200 /\ rev = "index" /\ req.ep = "filterRanges"
  /\ \E i \in 1..Len(Rows) :
       /\ Rows[i].existencias.v["Durango"] = Num(5)
       /\ Rows[i].existencias.v["Mazatlan"] = Num(0)
       /\ Rows[i].existencias.v["Zacatecas"] = Num(-2)
       /\ Rows[i].existencias.v["Fresnillo2"] = Num(9)

\* C7: when the secondary stock query succeeds and returns no row for a
\* product, its secondary stock is the number 0 and the request succeeds; it
\* is never a non-numeric marker.
C7_MissingSecondaryIsZero ==
  (Answered /\ PrimaryOk /\ Settled({"stock3"}, "resolved") # {})
    => /\ res.status = 200
       /\ \A i \in 1..Len(Rows) :
            (\A n \in 1..Len(store.db3.MULT03) :
               ~(/\ Trim(store.db3.MULT03[n].CVE_ART.v) = Trim(Rows[i].CVE_ART.v)
                 /\ store.db3.MULT03[n].CVE_ALM = 3))
              => SecondaryStock(Rows[i]) = Num(0)

\* the numeric parameters of a filter request whose value is not a number
NotNumbers(q) ==
  {k \in DOMAIN q :
     /\ \E n \in {"diam_int", "diam_ext", "altura", "seccion"} :
           k \in {n, n \o "_min", n \o "_max"}
     /\ parseFloat(ReplaceAll(Trim(q[k].v), ",", ".")) = NaN}

\* the predicates and parameters a handler builds from a request
BuiltFrom(q) ==
  IF req.ep = "filter" THEN BuildFilter(rev, q) ELSE BuildRanges(rev, q)

\* C8: a numeric filter whose value is not a number contributes no predicate
\* and no parameter: the request is processed as if the filter were absent,
\* and never ends in an error, on /filter and on /filter-ranges.
C8_NaNFilterIgnored ==
  (pc # "idle" /\ req.ep \in {"filter", "filterRanges"} /\ NotNumbers(req.q) # {})
    => /\ pc # "crashed"
       /\ BuiltFrom(req.q) = BuiltFrom([k \in (DOMAIN req.q) \ NotNumbers(req.q) |-> req.q[k]])

\* the stored text of a dimension as the number it denotes, in units of
\* 1/Scale; blank and NULL are 0
Stored(v) ==
  IF v = NULL \/ Trim(v.v) = <<>> THEN 0 ELSE parseFloat(ReplaceAll(Trim(v.v), ",", ".")).v

\* C9: /filter matches a dimensional filter V against a stored value V'
\* exactly when |V - V'| <= 0.00001, the boundary included, also for values
\* written with more decimals than the cast keeps; blank and NULL are 0.
C9_ToleranceExact ==
  (/\ Answered /\ req.ep = "filter"
   /\ Settled({"count", "data", "stock3"}, "rejected") = {}
   /\ DOMAIN req.q \subseteq {"diam_int", "SUCURSAL"}
   /\ "diam_int" \in DOMAIN req.q
   /\ NotNumbers(req.q) = {}
   /\ store.db.INVE02 # <<>>)
    => ((\E i \in 1..Len(Rows) : Rows[i].CVE_ART = store.db.INVE02[1].CVE_ART)
          <=> Abs(Stored(store.db.INVE_CLIB02[1].CAMPLIB1)
                    - parseFloat(ReplaceAll(Trim(req.q.diam_int.v), ",", ".")).v)
                <= Scale \div 100000)

\* C10: the WHERE clause of every count query and of every data query of the
\* search and filter endpoints contains T2.TIPO = 'P'.
C10_TipoPAlways ==
  \A i \in 1..Len(issued) :
    issued[i].query.sql.kind \in {"count", "data", "flat"}
      => \E n \in 1..Len(issued[i].query.sql.where) : issued[i].query.sql.where[n] = TipoP

\* the endpoints that return lists of product rows
Catalogue == {"search", "search2", "filter", "filterRanges"}

\* C11: every list of product rows returned by the search and filter
\* endpoints holds at most one row per article key, however many alternate
\* keys, stock rows and price rows the product has.
C11_OneRowPerArticle ==
  (Answered /\ req.ep \in Catalogue /\ res.status = 200)
    => \A i, j \in 1..Len(Rows) : Rows[i].CVE_ART = Rows[j].CVE_ART => i = j

\* the article keys of a list of rows
KeysOf(rows) == {rows[i].CVE_ART : i \in 1..Len(rows)}

\* C12: the total the COUNT query reports is the number of distinct products
\* the DATA query selects when paging is ignored; it is 0 exactly when the
\* unpaged data result is empty.
C12_CountMatchesData ==
  \A c, d \in 1..Len(issued) :
    (/\ issued[c].query.sql.kind = "count" /\ issued[c].result = "resolved"
     /\ issued[d].query.sql.kind = "data")
      => LET unpaged == GroupedRows(store.db, issued[d].query.sql, issued[d].query.params)
         IN /\ loc.total = Num(Cardinality(KeysOf(unpaged)))
            /\ (loc.total = Num(0) <=> unpaged = <<>>)

\* a page of one row of a selection of two products, counted as two
C12_Witness ==
  /\ Answered /\ res.status = 200 /\ req.ep = "filter" /\ rev = "index"
  /\ loc.total = Num(2)
  /\ Len(Rows) = 1
  /\ \E d \in Settled({"data"}, "resolved") :
       Len(GroupedRows(store.db, issued[d].query.sql, issued[d].query.params)) = 2

\* the attribute fields of a product row, those projected from INVE_CLIB02
AttrFields ==
  {"DIAM_INT", "DIAM_EXT", "ALTURA", "SECCION", "PERFIL", "SIST_MED", "DESC_ECOMM",
   "FAMILIA", "COLOCACION"}

\* the attribute fields of a row are all null
NullAttrs(row) ==
  /\ AttrFields \cap DOMAIN row # {}
  /\ \A a \in AttrFields \cap DOMAIN row : row[a] = NULL

\* the price of a row is 0 and so is every stock quantity
ZeroPriceAndStock(row) ==
  /\ Get(row, "PRECIO") = Num(0)
  /\ Get(row, "existencias") # UNDEF
  /\ \A nm \in DOMAIN row.existencias.v : row.existencias.v[nm] = Num(0)

\* C13: with no attribute filter and the default page, a product that has a
\* type-P alternate key and neither attribute row, price nor stock row is in
\* the data of /filter and /filter-ranges, with null attribute fields, price 0
\* and stock quantities 0 (part_000 selects neither price nor stock).
C13_OuterJoinsKeepProduct ==
  (/\ Answered /\ req.ep \in {"filter", "filterRanges"}
   /\ DOMAIN req.q \subseteq {"SUCURSAL"}
   /\ \A i \in 1..Len(issued) : issued[i].result = "resolved"
   /\ store.db.INVE02 # <<>>)
    => /\ res.status = 200
       /\ \E i \in 1..Len(Rows) :
            /\ Rows[i].CVE_ART = Str(KeyB)
            /\ NullAttrs(Rows[i])
            /\ rev # "p000" => ZeroPriceAndStock(Rows[i])

\* the product without attributes, price and stock in a page of part_001,
\* whose price comes from the enrichment
C13_Witness ==
  /\ Answered /\ req.ep = "filter" /\ rev = "p001" /\ res.status = 200
  /\ DOMAIN req.q \subseteq {"SUCURSAL"}
  /\ \A i \in 1..Len(issued) : issued[i].result = "resolved"
  /\ \E i \in 1..Len(Rows) :
       Rows[i].CVE_ART = Str(KeyB) /\ NullAttrs(Rows[i]) /\ ZeroPriceAndStock(Rows[i])

\* claves of the body of the request
Claves == Get(req.q, "claves")

\* claves is missing, is not an array, or is an empty array
BadClaves == Claves.t # "arr" \/ Claves.v = <<>>

\* C14: POST /existencias-masiva-filtrada with a body whose claves is missing,
\* is not an array or is an empty array is answered 400 with a message, and no
\* query is issued for the request.
C14_BadClavesRefused ==
  (pc # "idle" /\ req.ep = "bulk" /\ BadClaves)
    => /\ Answered
       /\ res.status = 400
       /\ res.body.k = "error"
       /\ IsStr(res.body.fields.error) /\ res.body.fields.error.v # <<>>
       /\ issued = <<>>

\* the empty array refused
C14_Witness ==
  /\ Answered /\ req.ep = "bulk" /\ Claves = Arr(<<>>)
  /\ res.status = 400 /\ issued = <<>>

\* the stock rows of warehouses 1 and 6 of the products named by a list of keys
StockOfKeys(keys) ==
  {[CVE_ART |-> r.CVE_ART, CVE_ALM |-> Num(r.CVE_ALM), EXIST |-> r.EXIST] :
     r \in {x \in SeqToSet(store.db.MULT02) :
              /\ x.CVE_ALM \in {1, 6}
              /\ \E i \in 1..Len(keys) : Trim(keys[i].v) = Trim(x.CVE_ART.v)}}

\* C15: POST /existencias-masiva-filtrada with a non-empty array of n keys
\* issues one query on the primary store with n placeholders bound to the n
\* keys in order; when it succeeds the response is 200 with exactly the stock
\* rows of those keys in warehouses 1 and 6, each once, ordered by article key
\* and then by warehouse.
C15_BulkStock ==
  (pc # "idle" /\ req.ep = "bulk" /\ ~BadClaves)
    => /\ Len(issued) = 1
       /\ issued[1].query.db = "db"
       /\ SqlPlaceholders(issued[1].query.sql) = Len(Claves.v)
       /\ issued[1].query.params = Claves.v
       /\ (Answered /\ issued[1].result = "resolved")
            => /\ res.status = 200
               /\ SeqToSet(Rows) = StockOfKeys(Claves.v)
               /\ \A i, j \in 1..Len(Rows) :
                    i < j => \/ StrLess(Trim(Rows[i].CVE_ART.v), Trim(Rows[j].CVE_ART.v))
                             \/ /\ Trim(Rows[i].CVE_ART.v) = Trim(Rows[j].CVE_ART.v)
                                /\ Rows[i].CVE_ALM.v < Rows[j].CVE_ALM.v

\* the stock of two products, asked for in the reverse of the key order
C15_Witness ==
  /\ Answered /\ req.ep = "bulk" /\ res.status = 200
  /\ Claves = Arr(<<Str(KeyC), Str(<<"A", "1">>)>>)
  /\ [i \in 1..Len(Rows) |-> <<Trim(Rows[i].CVE_ART.v), Rows[i].CVE_ALM.v>>]
       = << <<Trim(KeyA), 1>>, <<Trim(KeyA), 6>>, <<KeyC, 6>> >>

\* C16: the query of GET /familias carries one placeholder per entry of
\* excluir, bound to the entries; its result holds no family whose trimmed,
\* upper-cased value is in excluir, and no null or empty family.
C16_FamiliasDenylist ==
  (pc # "idle" /\ req.ep = "familias")
    => /\ Len(issued) = 1
       /\ SqlPlaceholders(issued[1].query.sql) = Len(excluir)
       /\ issued[1].query.params = excluir
       /\ (Answered /\ res.status = 200)
            => \A i \in 1..Len(Rows) :
                 /\ IsStr(Rows[i].FAMILIA) /\ Rows[i].FAMILIA.v # <<>>
                 /\ \A n \in 1..Len(excluir) :
                      ToUpper(Trim(Rows[i].FAMILIA.v)) # excluir[n].v

\* C17: a request during which a query on the primary store failed is answered
\* 500 with a body that carries the message of the error.
C17_PrimaryFailureIs500 ==
  (Answered /\ ~PrimaryOk)
    => /\ res.status = 500
       /\ res.body.k = "error"
       /\ \E f \in DOMAIN res.body.fields : res.body.fields[f] = Str(<<"E", "2">>)

\* the raw per-warehouse columns: those the data statements select and the
\* one the merge of the secondary store adds
RawColumns == {RawKey(k) : k \in {"1", "3", "5", "6", "7", "10"}}

\* C18: no row of a response of the search and filter endpoints carries a raw
\* column ALM_<id>_EXIST; the pivot has replaced each by an entry of
\* existencias.
C18_NoRawColumns ==
  (Answered /\ req.ep \in Catalogue /\ res.status = 200)
    => \A i \in 1..Len(Rows) : DOMAIN Rows[i] \cap RawColumns = {}

\* C19: the data of a paginated response of /filter and /filter-ranges has at
\* most as many rows as the limit its pagination reports.
C19_PageWithinLimit ==
  (Answered /\ req.ep \in {"filter", "filterRanges"} /\ res.status = 200)
    => /\ IsNum(res.body.pagination.limit)
       /\ Len(Rows) <= res.body.pagination.limit.v

\* a full page of one row cut from a selection of two products
C19_Witness ==
  /\ Answered /\ req.ep = "filter" /\ rev = "index" /\ res.status = 200
  /\ res.body.pagination.limit = Num(1)
  /\ Len(Rows) = 1
  /\ res.body.pagination.totalRecords = Num(2)

Resolved(l, q) ==
  LET rows == RunSql(store, q)
  IN CASE q.sql.kind = "count" -> AfterCount(rev, req.ep, req.q, l, rows)
       [] q.sql.kind \in {"data", "flat", "bulk", "familias", "productos"} ->
            AfterData(rev, req.ep, req.q, l, rows)
       [] q.sql.kind = "precio" -> AfterPrecio(l, WithPrecios(l.data, rows))
       [] q.sql.kind = "costo" ->
            AfterEnrich(rev, req.ep, [l EXCEPT !.data = WithUltimoCosto(l.data, rows)])
       [] q.sql.kind = "stock3" -> AfterStock3(rev, req.ep, l, rows)

\* the handler run from outcome o to its response, every query resolving
RECURSIVE Replay(_)
Replay(o) == IF o.next = NoQuery THEN o ELSE Replay(Resolved(o.loc, o.next))

\* every query of the request has resolved
AllResolved == \A i \in 1..Len(issued) : issued[i].result = "resolved"

PriceQueries == {i \in 1..Len(issued) : issued[i].query.sql.kind = "precio"}

\* C22: the branch of the request selects the store asked for the price: once
\* the data query has returned a non-empty page, enrichWithPrecios has issued
\* exactly one price query, to the secondary store when SUCURSAL is '3' and
\* to the primary store for every other value and when it is absent; no
\* request issues more than one price query.
C22_PriceRouting ==
  (pc # "idle" /\ HandlerOf(rev, req.ep).enrich)
    => /\ Cardinality(PriceQueries) <= 1
       /\ \A i \in PriceQueries :
            /\ issued[i].query.db
                 = (IF Get(req.q, "SUCURSAL") = Str(<<"3">>) THEN "db3" ELSE "db")
            /\ issued[i].query.sql.table
                 = (IF Get(req.q, "SUCURSAL") = Str(<<"3">>)
                    THEN "PRECIO_X_PROD03" ELSE "PRECIO_X_PROD02")
       /\ (\E d \in Settled({"data"}, "resolved") : RunSql(store, issued[d].query) # <<>>)
            <=> PriceQueries # {}

\* the price of branch 3 read from the secondary store
C22_Witness ==
  /\ Answered /\ rev = "p001" /\ req.ep = "filter" /\ res.status = 200
  /\ Get(req.q, "SUCURSAL") = Str(<<"3">>)
  /\ \E i \in PriceQueries : issued[i].query.db = "db3" /\ issued[i].result = "resolved"
  /\ \E i \in 1..Len(Rows) : Rows[i].PRECIO = Num(90)

\* the request parameter that filters a column
AliasOf(col) == (CHOOSE f \in SeqToSet(FilterMap("index")) : f.col = col).alias

\* the number a raw filter value denotes
NumberOf(v) == parseFloat(ReplaceFirst(Trim(v.v), ",", "."))

\* the parameters ps are the values of the request that belong to the
\* placeholders of predicate c, in the order of the placeholders
Fits(c, ps, q) ==
  CASE c.k \in {"tipoP", "true"} -> ps = <<>>
    [] c.k = "num" ->
         LET a == AliasOf(c.col)
         IN (CASE c.op \in {"abs", "eq"} -> ps = <<NumberOf(q[a])>>
               [] c.op = "between" -> ps = <<NumberOf(q[a \o "_min"]), NumberOf(q[a \o "_max"])>>
               [] c.op = "ge" -> ps = <<NumberOf(q[a \o "_min"])>>
               [] c.op = "le" -> ps = <<NumberOf(q[a \o "_max"])>>)
    [] c.k = "anyOf" ->
         /\ Len(ps) = Len(c.atoms)
         /\ \A i \in 1..Len(ps) :
              LET v == q[AliasOf(c.atoms[i].col)]
                  core == SelectSeq(ToUpper(v.v), LAMBDA ch : ch \notin {" ", "+"})
              IN IsStr(ps[i]) /\ Contains(ToUpper(ps[i].v), core)

\* the parameters ps are those of the predicates cs, predicate by predicate
RECURSIVE Aligned(_, _, _)
Aligned(cs, ps, q) ==
  IF cs = <<>> THEN ps = <<>>
  ELSE LET n == Placeholders(Head(cs))
       IN /\ n <= Len(ps)
          /\ Fits(Head(cs), SubSeq(ps, 1, n), q)
          /\ Aligned(Tail(cs), SubSeq(ps, n + 1, Len(ps)), q)

StockQueries == {i \in 1..Len(issued) : issued[i].query.sql.kind = "stock3"}

\* C24: the secondary stock query is issued only after the primary data query
\* has resolved, at most once per request and never for an empty page; its
\* parameters are the trimmed article keys of the page, one placeholder per
\* row and in the order of the page.
C24_StockAfterData ==
  /\ Cardinality(StockQueries) <= 1
  /\ \A i \in StockQueries :
       /\ issued[i].query.db = "db3"
       /\ \E d \in Settled({"data", "flat"}, "resolved") :
            LET page == RunSql(store, issued[d].query)
            IN /\ d < i
               /\ issued[d].query.db = "db"
               /\ page # <<>>
               /\ issued[i].query.sql.nkeys = Len(page)
               /\ issued[i].query.params = TrimmedKeys(page)
  /\ \A d \in Settled({"data", "flat"}, "rejected") \cup Settled({"count"}, "rejected") :
       StockQueries = {}
  /\ \A d \in Settled({"data", "flat"}, "resolved") :
       RunSql(store, issued[d].query) = <<>> => StockQueries = {}

\* a page of two rows whose keys went to the secondary store in page order
C24_Witness ==
  /\ Answered /\ res.status = 200 /\ Len(Rows) = 2
  /\ \E i \in StockQueries :
       /\ issued[i].result = "resolved"
       /\ Len(issued[i].query.params) = 2
       /\ issued[i].query.params[1] # issued[i].query.params[2]

\* the statements of the single primary query of a handler
PrimaryKinds == {"count", "data", "flat", "bulk", "familias", "productos"}

\* C25: a request attempts each of its store queries at most once: no two
\* queries of a request are of the same kind, a query that failed is never
\* issued again, only the last query issued can be outstanding, and after the
\* primary count or data query has failed the request issues no further query
\* and is answered 500.
C25_NoRetry ==
  /\ \A i, j \in 1..Len(issued) :
       i < j => /\ issued[i].query.sql.kind # issued[j].query.sql.kind
                /\ issued[i].query # issued[j].query
                /\ issued[i].result # "pending"
  /\ \A i \in Settled(PrimaryKinds, "rejected") :
       /\ i = Len(issued)
       /\ issued[i].query.db = "db"
       /\ pending = NoQuery
       /\ Answered /\ res.status = 500

\* the data query failed after the count query had succeeded, and nothing
\* followed it
C25_Witness ==
  /\ Answered /\ Len(issued) = 2
  /\ issued[1].query.sql.kind = "count" /\ issued[1].result = "resolved"
  /\ issued[2].query.sql.kind = "data" /\ issued[2].result = "rejected"

\* the field the merge of the handler adds to a row
MergeField == IF HandlerOf(rev, req.ep).stock3 = "diag" THEN "DB_EXIST_ALM10" ELSE "ALM_10_EXIST"

\* row b is row a with the field f added and nothing else touched
AddsOnly(a, b, f) ==
  /\ f \notin DOMAIN a
  /\ DOMAIN b = (DOMAIN a) \cup {f}
  /\ \A c \in DOMAIN a : b[c] = a[c]

\* pivoted row b is the pivot of row a but for the stock of warehouse 10
PivotAddsOnly(a, b) ==
  LET p == PivotItem(ALMACENES(rev), a)
  IN /\ RawKey("10") \notin DOMAIN a
     /\ DOMAIN b = DOMAIN p
     /\ \A c \in (DOMAIN p) \ {"existencias"} : b[c] = p[c]
     /\ DOMAIN b.existencias.v = DOMAIN p.existencias.v
     /\ \A nm \in (DOMAIN p.existencias.v) \ {ALMACENES(rev)["10"]} :
          b.existencias.v[nm] = p.existencias.v[nm]

\* C26: when a handler that awaited the secondary stock query answers 200,
\* after the query resolved or after its rejection was caught, the rows of the
\* response are the rows of the primary page, as many and in the same order,
\* every field of the primary page with its value; the only difference is the
\* stock field derived from the secondary store.
C26_MergeFrame ==
  [][(Awaiting({"stock3"}) /\ res'.status = 200)
       => /\ Len(res'.body.data) = Len(loc.data)
          /\ \A i \in 1..Len(loc.data) :
               IF HandlerOf(rev, req.ep).pivot
               THEN PivotAddsOnly(loc.data[i], res'.body.data[i])
               ELSE AddsOnly(loc.data[i], res'.body.data[i], MergeField)]_vars

\* two rows merged with a secondary stock that was found for one of them
C26_Witness ==
  /\ Answered /\ res.status = 200 /\ req.ep = "filterRanges" /\ rev = "index"
  /\ Settled({"stock3"}, "resolved") # {}
  /\ Len(Rows) = 2
  /\ \E i, j \in 1..2 :
       /\ Rows[i].existencias.v["Fresnillo2"] # Num(0)
       /\ Rows[j].existencias.v["Fresnillo2"] = Num(0)

\* the purchase movements of the primary store for the article of a row
PurchasesOf(row) ==
  {n \in 1..Len(store.db.MINVE02) :
     /\ store.db.MINVE02[n].CVE_CPTO = 1
     /\ Trim(store.db.MINVE02[n].CVE_ART.v) = Trim(row.CVE_ART.v)}

\* the purchase movement of a row with the greatest movement number
LastPurchase(row) ==
  store.db.MINVE02[CHOOSE n \in PurchasesOf(row) :
                     \A k \in PurchasesOf(row) :
                       store.db.MINVE02[k].NUM_MOV <= store.db.MINVE02[n].NUM_MOV]

\* row b is row a with the default supplier and cost
CostoDefaults(a, b) == b = WithField(WithField(a, "ULTIMO_PROVEEDOR", Str(<<>>)), "ULT_COSTO", Num(0))

\* C29: when the movement query of enrichWithUltimoCosto resolves, each row of
\* the page gets the supplier (trimmed, '' when null) and the cost (0 when
\* null or zero) of its purchase movement with the greatest NUM_MOV, and a row
\* with no purchase movement gets '' and 0; when the query rejects every row
\* gets '' and 0 and the handler goes on to its next query; in every case the
\* rows are as many, in the same order and otherwise unchanged.
C29_UltimoCosto ==
  [][Awaiting({"costo"})
       => /\ pc' = "await" /\ res' = NoRes
          /\ Len(loc'.data) = Len(loc.data)
          /\ \A i \in 1..Len(loc.data) :
               LET a == loc.data[i]
                   b == loc'.data[i]
               IN /\ DOMAIN b = (DOMAIN a) \cup {"ULTIMO_PROVEEDOR", "ULT_COSTO"}
                  /\ \A c \in (DOMAIN a) \ {"ULTIMO_PROVEEDOR", "ULT_COSTO"} : b[c] = a[c]
                  /\ IF issued'[Len(issued)].result = "rejected" \/ PurchasesOf(a) = {}
                     THEN CostoDefaults(a, b)
                     ELSE LET m == LastPurchase(a)
                          IN /\ b.ULTIMO_PROVEEDOR
                                  = (IF m.CLAVE_CLPV = NULL THEN Str(<<>>) ELSE Str(Trim(m.CLAVE_CLPV.v)))
                             /\ b.ULT_COSTO
                                  = (IF m.COSTO \in {NULL, Num(0)} THEN Num(0) ELSE m.COSTO)]_vars

\* a page whose first article has two purchases, the later one from supplier
\* 35 at cost 12, answered with that supplier and cost
C29_Witness ==
  /\ Answered /\ rev = "p001" /\ res.status = 200
  /\ Settled({"costo"}, "resolved") # {}
  /\ \E i \in 1..Len(Rows) :
       /\ Rows[i].ULTIMO_PROVEEDOR = Str(<<"3", "5">>)
       /\ Rows[i].ULT_COSTO = Num(12)

\* C27: with stores that settle every query, a request that has been received
\* is eventually answered, whatever its parameters and body.
C27_EventuallyAnswered == (pc # "idle") ~> Answered

\* the handler of a received request stops on an exception and no response
\* is ever sent for it
C27_Unanswered == pc = "crashed" /\ res = NoRes /\ req.ep # "none"

\* the clients whose call of query() has a place in pool s
InPool(s) == {c \in Clients : calls[c].db = s /\ calls[c].phase \in {"attaching", "running"}}

\* the clients whose callback waits for a connection
Blocked == {c \in Clients : calls[c].phase = "waiting"}

\* C28: a handler holds at most one pooled connection, and none while its
\* call of query() waits for one: the connections out of a pool are those of
\* the calls in progress on it, a call waits only while all PoolSize
\* connections of its pool are with calls in progress, and so the handlers
\* are never all blocked waiting for a connection.
C28_NoHoldAndWait ==
  /\ \A c \in Clients :
       /\ calls[c].held <= 1
       /\ calls[c].phase \in {"idle", "waiting", "attaching", "settled"} => calls[c].held = 0
       /\ calls[c].phase = "waiting"
            => /\ pool[calls[c].db].inUse = PoolSize
               /\ \E d \in InPool(calls[c].db) : d # c
  /\ \A s \in PoolNames :
       /\ pool[s].inUse = Cardinality(InPool(s))
       /\ pool[s].inUse <= PoolSize
       /\ {pool[s].waiting[i] : i \in 1..Len(pool[s].waiting)}
            = {c \in Blocked : calls[c].db = s}
  /\ Blocked # Clients

\* one pool is exhausted by five queries and a sixth handler waits for it
C28_Witness ==
  /\ pool["db"].inUse = PoolSize
  /\ Blocked # {}
  /\ \A c \in Blocked : calls[c].db = "db"
  /\ Cardinality({c \in Clients : calls[c].phase = "running" /\ calls[c].db = "db"}) = PoolSize

\* the calls of query() whose promise has settled
SettledCalls == {c \in Clients : calls[c].phase = "settled"}

\* C30: a call of query() that obtained a connection has detached it exactly
\* once when its promise settles, and not before the database has answered; a
\* call whose pool.get failed has detached nothing and is rejected; a promise
\* settles once, and not before the callback of pool.get or db.query has run;
\* when every call has settled no connection of either pool is out.
C30_DetachOnce ==
  /\ \A c \in Clients :
       /\ calls[c].settles <= 1
       /\ calls[c].detached <= 1
       /\ calls[c].phase = "settled"
            => /\ calls[c].settles = 1
               /\ calls[c].detached = (IF calls[c].got THEN 1 ELSE 0)
               /\ calls[c].held = 0
               /\ ~calls[c].got => calls[c].outcome = "rejected"
               /\ calls[c].outcome \in {"resolved", "rejected"}
       /\ calls[c].phase \in {"waiting", "attaching", "running"}
            => /\ calls[c].settles = 0
               /\ calls[c].detached = 0
               /\ calls[c].outcome = "none"
  /\ (\A c \in Clients : calls[c].phase \in {"idle", "settled"})
       => \A s \in PoolNames : pool[s].inUse = 0 /\ pool[s].waiting = <<>>

\* every handler's query has settled: one resolved, one rejected by the
\* database and one rejected because no connection could be obtained
C30_Witness ==
  /\ SettledCalls = Clients
  /\ \E c \in Clients : calls[c].outcome = "resolved" /\ calls[c].detached = 1
  /\ \E c \in Clients : calls[c].outcome = "rejected" /\ calls[c].got /\ calls[c].detached = 1
  /\ \E c \in Clients : calls[c].outcome = "rejected" /\ ~calls[c].got /\ calls[c].detached = 0

====
